---- MODULE Spec2Model ----
(***************************************************************************)
(* The ingestion -> dedup -> enrichment pipeline of ai-news-digest and its *)
(* scheduler, as state machines over the content table.                    *)
(*                                                                         *)
(*   SpecCollect  the three collectors (feed, channel, page scraper)       *)
(*                running concurrently against the content table           *)
(*   SpecEnrich   runs of ContentSummarizer.process_unprocessed, started   *)
(*                by the cron trigger or called directly (run_now)         *)
(*   Spec         collectors and summarizer runs together                  *)
(*   SpecSched    DigestScheduler: the five jobs and their triggers        *)
(*   SpecSchedLive  the same with at most MaxJobStarts starts and jobs     *)
(*                that end (weak fairness of the finishing steps)          *)
(*   SpecDigest   DigestGenerator.create_and_save_digest and               *)
(*                EmailSender.send_latest_digest over enriched rows        *)
(*   SpecCollectAll  collect_all of the feed and the channel collector     *)
(*   SpecBacklog  enrich passes without a provider while entries arrive    *)
(*   SpecSections generate_digest, get_top_signal and categorize_content   *)
(*                over tables of enriched rows                             *)
(*   SpecFrozen   create_and_save_digest while summarizer runs go on       *)
(*   SpecMain     main.py invoked from the shell                           *)
(*   SpecRetry    the retry policy of fetch_feed and fetch_page            *)
(*   SpecDuration YouTubeCollector.parse_duration on short strings         *)
(*   SpecType     RSSCollector.determine_content_type on small entries     *)
(*   SpecFormat   DigestGenerator.format_duration on a range of seconds    *)
(*   SpecSendRace send_latest_digest runs of two threads at once           *)
(*   SpecCaps     generate_digest over more deep dives than a section holds *)
(*                                                                         *)
(* A database session is modelled as the code uses it: objects added or    *)
(* changed in a session are private to it until session.commit(), which    *)
(* either applies all of them or raises and applies none.  Reads see the   *)
(* committed table.                                                        *)
(***************************************************************************)
EXTENDS Integers, Sequences, FiniteSets, TLC

\* ------------------------------------------------------------- bounds
NumURLs == 2          \* distinct source URLs a source can report
MaxBatch == 2         \* entries in one feed / uploads in one channel listing
MaxFetchRuns == 3     \* collector runs in one behaviour of SpecCollect
NumSources == 2       \* feeds / channels configured for one collect_all run
MaxSweepFetches == 3  \* sources fetched in one behaviour of SpecCollectAll
PipelineFetchRuns == 1     \* collector runs in one behaviour of Spec
PipelineEnrichRuns == 1    \* process_unprocessed runs in one behaviour of Spec
NumEnrichers == 2     \* threads that may run process_unprocessed at once
NumCallers == 1       \* threads that call run_now / run_full_pipeline
MaxInvocations == 3   \* invocations of main.py in one behaviour of SpecMain
MaxJobStarts == 3     \* cron runs and direct calls in one behaviour of SpecSchedLive
StartNow == 2         \* the clock starts at this tick
MaxNow == 4           \* the clock stops at this tick
HoursPerTick == 12    \* length of one clock tick
MaxShort == 2         \* rows of a table of SpecSections with rows of every kind
MaxListed == 11       \* rows of a table of SpecSections with rows of few kinds
MaxEnclosures == 1    \* enclosures of one entry given to determine_content_type
MaxLinks == 2         \* links of one such entry
MaxTitle == 4         \* characters of a feed title over TitleChars
MaxBelowZero == 130   \* format_duration is given the numbers of seconds from -MaxBelowZero on
MaxSeconds == 7400    \* largest number of seconds given to format_duration
MaxCut == 4           \* rows of a table of SpecCaps: one more than the deep-dive limit
MaxChars == 6         \* characters of a duration string drawn from DurationChars
MaxGenRuns == 2       \* create_and_save_digest runs in one behaviour of SpecDigest
MaxSendRuns == 2      \* send_latest_digest runs in one behaviour of SpecDigest
NumSenders == 1       \* threads that may run send_latest_digest at once
NumRacers == 2        \* the same in SpecSendRace
MaxRaceRuns == 3      \* send_latest_digest runs in one behaviour of SpecSendRace
MaxEnrichRuns == 2    \* process_unprocessed runs in one behaviour of SpecEnrich
MaxItems == 2         \* rows in the table when the summarizer starts
MaxPub == 2           \* distinct publish times of those rows

\* process_content_job: process_unprocessed(limit=50)
EnrichLimit == 50
BacklogRows == EnrichLimit + 1   \* rows the table of SpecBacklog can hold

URLs == 1..NumURLs
NoLink == 0           \* entry.get("link", "") == "" / no videoId

\* ------------------------------------------------------------- content table
\* Column values are tagged by their writer: 0 is NULL, FetchTag marks what a
\* collector wrote, an enrichment writes the tag of the run that produced it.
NULL == 0
NoEntities == {}      \* entities column NULL
FetchTag == 100

\* Content(...) as the collectors construct it; entities is the only
\* enrichment column a collector may fill (video metadata).
NewRow(url, ctype, pub, ents) ==
    [url |-> url, ctype |-> ctype, pub |-> pub,
     summary |-> NULL, categories |-> NULL, entities |-> ents, signals |-> NULL,
     processed |-> FALSE, included |-> FALSE]

RowsWithURL(st, u) == {i \in 1..Len(st) : st[i].url = u}

\* session.query(Content).filter_by(source_url=u).first() is not None
Exists(st, u) == RowsWithURL(st, u) # {}

\* ------------------------------------------------------------- source contents
\* One listed entry.  ok = FALSE marks an entry the collector cannot turn into
\* a storable row: for the feed a podcast entry with an audio link (entities is
\* assigned a dict, which a Text column cannot bind), for the channel a
\* publishedAt that fromisoformat rejects, for the scraper a page whose fetch
\* or extraction raises.
PubOf(link) == link   \* the publish time a source reports for a URL
Entries == [link : URLs \cup {NoLink}, ok : BOOLEAN]

RECURSIVE SeqsUpTo(_, _)
SeqsUpTo(S, n) ==
    IF n = 0 THEN {<<>>}
    ELSE LET shorter == SeqsUpTo(S, n - 1)
         IN  shorter \cup {Append(s, e) : s \in {t \in shorter : Len(t) = n - 1}, e \in S}

Batches == SeqsUpTo(Entries, MaxBatch)
Pages == {<<e>> : e \in {x \in Entries : x.link # NoLink}}

Fetchers == {"feed", "channel", "web"}

VARIABLES
    store,      \* the committed content table, row id = index
    fetch,      \* per collector: its current run
    fetchLeft,  \* collector runs that may still start
    sweep,      \* per collector: its current collect_all run
    client,     \* ContentSummarizer.client is set (an API key is configured)
    enrich,     \* per summarizer thread: its current process_unprocessed run
    enrichLeft, \* process_unprocessed runs that may still start
    times,      \* per row id: enrichments committed for it
    cron,       \* per job: the run the scheduler's executor started, if any
    call,       \* per caller thread: its run_now / run_full_pipeline call
    last,       \* per job: how its latest finished run ended
    schedLeft,  \* job runs and calls that may still start (Unbounded: any number)
    now,        \* the clock, in ticks
    meta,       \* per row id: what its categories and investment_signals decode to
    digests,    \* the committed digests table, row id = index
    gen,        \* the current create_and_save_digest run
    genLeft,    \* create_and_save_digest runs that may still start
    send,       \* per sender thread: its current send_latest_digest run
    sendLeft,   \* send_latest_digest runs that may still start
    accepted,   \* ids of the digests the mail provider accepted (success status)
    cli,        \* the current invocation of main.py
    cliLeft,    \* invocations of main.py that may still start
    codes,      \* the finished invocations: command and exit code, oldest first
    tries,      \* per fetcher with a retry policy: its current fetch_feed / fetch_page call
    dur,        \* a call of parse_duration: its argument and what it returned
    typed,      \* a call of determine_content_type: entry, feed title, result
    fmt         \* a call of format_duration: its argument and what it returned

collectVars == <<fetch, fetchLeft, sweep>>
enrichVars == <<client, enrich, enrichLeft, times>>
schedVars == <<cron, call, last, schedLeft>>
digestVars == <<now, meta, digests, gen, genLeft, send, sendLeft, accepted>>
cliVars == <<cli, cliLeft, codes>>
restVars == <<cliVars, tries, dur, typed, fmt>>
vars == <<store, collectVars, enrichVars, schedVars, digestVars, restVars>>

\* pc: idle -> loop -> commit -> returned | raised.  outcome and batch are the
\* source's contents, fixed at the first run and met again by every later run
\* of the same collector.  Of the current run: err is the error it ended with,
\* tried the URLs it sent to the table as INSERTs, stored those it committed.
IdleFetch ==
    [pc |-> "idle", run |-> 0, outcome |-> "ok", batch |-> <<>>,
     idx |-> 1, pending |-> <<>>, err |-> "none", tried |-> {}, stored |-> {}]

FetchOutcomes == {"ok", "http", "net"}

\* ------------------------------------------------------------- commit of added rows
\* The INSERTs of one flush run in the order the objects were added.  A row is
\* refused when its value cannot be bound or when its source_url is already in
\* the table or earlier in the same flush (unique=True on source_url).
RowRefused(st, pend, i) ==
    \/ ~pend[i].ok
    \/ Exists(st, pend[i].link)
    \/ \E j \in 1..(i - 1) : pend[j].link = pend[i].link

Refused(st, pend) == {i \in 1..Len(pend) : RowRefused(st, pend, i)}

FirstRefused(st, pend) ==
    CHOOSE i \in Refused(st, pend) : \A j \in Refused(st, pend) : i <= j

CommitError(st, pend) ==
    IF Refused(st, pend) = {} THEN "none"
    ELSE IF ~pend[FirstRefused(st, pend)].ok THEN "store" ELSE "integrity"

RECURSIVE Inserted(_, _, _, _)
Inserted(st, pend, ctype, ents) ==
    IF pend = <<>> THEN st
    ELSE Inserted(Append(st, NewRow(Head(pend).link, ctype, PubOf(Head(pend).link), ents)),
                  Tail(pend), ctype, ents)

\* A commit that keeps the rows added before the first refused one.
CommittedUntilRefused(st, pend, ctype, ents) ==
    IF CommitError(st, pend) = "none" THEN Inserted(st, pend, ctype, ents)
    ELSE Inserted(st, SubSeq(pend, 1, FirstRefused(st, pend) - 1), ctype, ents)

\* session.commit(): all added rows or, on any refusal, none of them.
Committed(st, pend, ctype, ents) ==
    IF CommitError(st, pend) = "none" THEN Inserted(st, pend, ctype, ents) ELSE st

Links(pend) == {pend[i].link : i \in 1..Len(pend)}

\* ------------------------------------------------------------- collectors
Finished(f) == fetch[f].pc \in {"returned", "raised"}
CanStart(f) == fetch[f].pc = "idle" \/ Finished(f)

\* The collectors that have a collect_all over the configured sources.
Sweepers == {"feed", "channel"}
Sweeping(f) == f \in Sweepers /\ sweep[f].pc = "running"

\* What the source answers: drawn at the first run, the same at a later one;
\* within collect_all every call is for another source.
Contents(f, out, b) ==
    IF fetch[f].run = 0 \/ Sweeping(f)
    THEN /\ out \in FetchOutcomes
         /\ b \in (IF out = "ok" THEN Batches ELSE {<<>>})
    ELSE out = fetch[f].outcome /\ b = fetch[f].batch

\* A call of collect_from_feed / collect_from_channel: made by the for-loop of
\* collect_all for its next source once the call before has returned, or
\* made directly.
MayCall(f) ==
    /\ CanStart(f) /\ fetchLeft > 0
    /\ Sweeping(f) => sweep[f].todo > 0 /\ fetch[f].pc # "raised"

Called(f) ==
    IF Sweeping(f)
    THEN [sweep EXCEPT ![f] = [@ EXCEPT !.todo = @ - 1, !.fetched = @ + 1]]
    ELSE sweep

Begin(f, out, b, pc) ==
    [pc |-> pc, run |-> fetch[f].run + 1, outcome |-> out, batch |-> b,
     idx |-> 1, pending |-> <<>>, err |-> "none", tried |-> {}, stored |-> {}]

\* RSSCollector.collect_from_feed up to the session: fetch_feed raising
\* anything is logged and the call returns the empty list.
FeedStart ==
    /\ MayCall("feed")
    /\ \E out \in FetchOutcomes, b \in Batches :
          /\ Contents("feed", out, b)
          /\ fetch' = [fetch EXCEPT !["feed"] =
                 Begin("feed", out, b,
                       IF out # "ok" THEN "returned"
                       ELSE IF b = <<>> THEN "commit" ELSE "loop")]
    /\ fetchLeft' = fetchLeft - 1
    /\ sweep' = Called("feed")
    /\ UNCHANGED <<store, enrichVars, schedVars, digestVars, restVars>>

\* YouTubeCollector.collect_from_channel up to the session:
\* get_channel_uploads turns an HttpError into the empty list and lets any
\* other exception through.
ChannelStart ==
    /\ MayCall("channel")
    /\ \E out \in FetchOutcomes, b \in Batches :
          /\ Contents("channel", out, b)
          /\ fetch' = [fetch EXCEPT !["channel"] =
                 IF out = "net"
                 THEN [Begin("channel", out, b, "raised") EXCEPT !.err = "fetch"]
                 ELSE Begin("channel", out, b, IF b = <<>> THEN "commit" ELSE "loop")]
    /\ fetchLeft' = fetchLeft - 1
    /\ sweep' = Called("channel")
    /\ UNCHANGED <<store, enrichVars, schedVars, digestVars, restVars>>

AfterEntry(r) ==
    [r EXCEPT !.idx = r.idx + 1,
              !.pc = IF r.idx + 1 > Len(r.batch) THEN "commit" ELSE "loop"]

\* One pass of the for-loop of collect_from_feed: no link -> continue, URL in
\* the table -> continue, otherwise session.add (autoflush is off, so the
\* pre-check does not see rows added earlier in this session).
FeedEntry ==
    /\ fetch["feed"].pc = "loop"
    /\ LET r == fetch["feed"]
           e == r.batch[r.idx]
       IN  fetch' = [fetch EXCEPT !["feed"] =
             IF e.link = NoLink \/ Exists(store, e.link)
             THEN AfterEntry(r)
             ELSE AfterEntry([r EXCEPT !.pending = Append(r.pending, e)])]
    /\ UNCHANGED <<store, fetchLeft, sweep, enrichVars, schedVars, digestVars, restVars>>

\* One pass of the for-loop of collect_from_channel; a malformed publishedAt
\* raises ValueError out of the loop, and the session closes uncommitted.
ChannelEntry ==
    /\ fetch["channel"].pc = "loop"
    /\ LET r == fetch["channel"]
           e == r.batch[r.idx]
       IN  fetch' = [fetch EXCEPT !["channel"] =
             IF e.link = NoLink \/ Exists(store, e.link)
             THEN AfterEntry(r)
             ELSE IF ~e.ok
             THEN [r EXCEPT !.pc = "raised", !.err = "value", !.pending = <<>>]
             ELSE AfterEntry([r EXCEPT !.pending = Append(r.pending, e)])]
    /\ UNCHANGED <<store, fetchLeft, sweep, enrichVars, schedVars, digestVars, restVars>>

\* session.commit() at the end of collect_from_feed / collect_from_channel,
\* outside any try: an error leaves the table as it was and propagates.
BatchCommit(f, ctype, ents) ==
    /\ fetch[f].pc = "commit"
    /\ LET r == fetch[f]
           err == CommitError(store, r.pending)
       IN  /\ store' = Committed(store, r.pending, ctype, ents)
           /\ fetch' = [fetch EXCEPT ![f] =
                 [r EXCEPT !.pc = IF err = "none" THEN "returned" ELSE "raised",
                           !.err = err, !.tried = Links(r.pending),
                           !.stored = IF err = "none" THEN Links(r.pending) ELSE {}]]
    /\ UNCHANGED <<fetchLeft, sweep, enrichVars, schedVars, digestVars, restVars>>

FeedCommit == BatchCommit("feed", "article", NoEntities)
ChannelCommit == BatchCommit("channel", "video", {FetchTag})

\* WebScraper.scrape_article, first session: the URL is known -> return None.
WebStart ==
    /\ CanStart("web") /\ fetchLeft > 0
    /\ \E b \in Pages :
          /\ Contents("web", "ok", b)
          /\ fetch' = [fetch EXCEPT !["web"] =
                 Begin("web", "ok", b,
                       IF Exists(store, b[1].link) THEN "returned" ELSE "commit")]
    /\ fetchLeft' = fetchLeft - 1
    /\ UNCHANGED <<store, sweep, enrichVars, schedVars, digestVars, restVars>>

\* scrape_article, the try block: fetch, extract, add and commit in a second
\* session; every exception, a refused insert included, is logged and the
\* call returns None.
WebCommit ==
    /\ fetch["web"].pc = "commit"
    /\ LET r == fetch["web"]
           page == IF r.batch[1].ok THEN r.batch ELSE <<>>
           err == IF r.batch[1].ok THEN CommitError(store, page) ELSE "fetch"
       IN  /\ store' = Committed(store, page, "article", NoEntities)
           /\ fetch' = [fetch EXCEPT !["web"] =
                 [r EXCEPT !.pc = "returned", !.err = err, !.tried = Links(page),
                           !.stored = IF err = "none" THEN Links(page) ELSE {}]]
    /\ UNCHANGED <<fetchLeft, sweep, enrichVars, schedVars, digestVars, restVars>>

CollectNext ==
    \/ FeedStart \/ FeedEntry \/ FeedCommit
    \/ ChannelStart \/ ChannelEntry \/ ChannelCommit
    \/ WebStart \/ WebCommit

\* ------------------------------------------------------------- collect_all
\* pc: idle -> running -> returned | raised.  todo counts the configured
\* sources collect_all has not called collect_from_* for yet, fetched those
\* it has.
IdleSweep == [pc |-> "idle", todo |-> 0, fetched |-> 0]

\* collect_all(sources) is called.
AllStart(f) ==
    /\ sweep[f].pc # "running" /\ CanStart(f) /\ fetchLeft > 0
    /\ sweep' = [sweep EXCEPT ![f] =
          [IdleSweep EXCEPT !.pc = "running", !.todo = NumSources]]
    /\ fetch' = [fetch EXCEPT ![f] = IdleFetch]
    /\ UNCHANGED <<store, fetchLeft, enrichVars, schedVars, digestVars, restVars>>

\* collect_all ends: it returns after the last source, and an exception that
\* left collect_from_* leaves collect_all too (the loop has no try).
AllEnd(f) ==
    /\ Sweeping(f)
    /\ \/ fetch[f].pc = "raised"
       \/ sweep[f].todo = 0 /\ fetch[f].pc = "returned"
    /\ sweep' = [sweep EXCEPT ![f] =
          [@ EXCEPT !.pc = IF fetch[f].pc = "raised" THEN "raised" ELSE "returned"]]
    /\ UNCHANGED <<store, fetch, fetchLeft, enrichVars, schedVars, digestVars, restVars>>

CollectAllNext ==
    \/ \E f \in Sweepers : AllStart(f) \/ AllEnd(f)
    \/ FeedStart \/ FeedEntry \/ FeedCommit
    \/ ChannelStart \/ ChannelEntry \/ ChannelCommit

CollectIdle ==
    /\ fetch = [f \in Fetchers |-> IdleFetch]
    /\ sweep = [f \in Sweepers |-> IdleSweep]

\* ------------------------------------------------------------- provider and parsing
\* What client.messages.create does on one call: it raises, or it returns a
\* text.  form says where the JSON is in the text: "strict" the whole text is
\* JSON, "embedded" a {...} object inside other text, "braces" braces that do
\* not enclose JSON, "prose" no braces at all.  value is what the JSON decodes
\* to: a non-empty object, an object whose "summary" is null, an object whose
\* "entities" is not an object, an empty (falsy) value, or a non-empty value
\* that is no object (list, string).
Raised == [form |-> "raise", value |-> "none"]
Objects == {"object", "null_summary", "bad_entities", "empty"}
Texts ==
    {[form |-> "strict", value |-> v] : v \in Objects \cup {"non_object"}}
    \cup {[form |-> "embedded", value |-> v] : v \in Objects}
    \cup {[form |-> "braces", value |-> "none"], [form |-> "prose", value |-> "none"]}
ProviderOutcomes == {Raised} \cup Texts

\* json.loads(result_text): the value, or JSONDecodeError
StrictDecode(t) == IF t.form = "strict" THEN t.value ELSE "error"

\* re.search(r"\{.*\}") then json.loads of the match: no match, a value, or an
\* error that the outer except turns into None
BracketExtract(t) ==
    IF t.form = "embedded" THEN t.value
    ELSE IF t.form = "braces" THEN "error" ELSE "nomatch"

\* The body of the try block of summarize() for one provider outcome: the
\* decoded value, or why None is returned.
Parsed(out) ==
    IF out = Raised THEN "provider_error"
    ELSE IF StrictDecode(out) # "error" THEN StrictDecode(out)
    ELSE IF BracketExtract(out) \in {"error", "nomatch"} THEN "unparsed"
    ELSE BracketExtract(out)

\* summarize() returned None
NoResult == {"unconfigured", "provider_error", "unparsed"}

\* summarize() under a retry policy like the one on fetch_feed.
SummarizeAttemptsRetried == 1 + 2

\* summarize() makes the call once; no retry decorator is on it.
SummarizeAttempts == 1

\* A process_content that goes on whatever summarize() returned.
FalsyIgnored(result) == FALSE

\* `if not result: return False` in process_content
Falsy(result) == result \in NoResult \cup {"empty"}

\* ------------------------------------------------------------- summarizer runs
Enrichers == 1..NumEnrichers

\* pc: idle -> summarize (-> retry) -> begin -> finish -> commit -> ... ->
\* done | raised.
\* sel is the list process_unprocessed read, idx the position in it, sess the
\* row of process_content's session as loaded and as assigned so far (<<>>
\* when no session is open),
\* calls the provider calls made for the current item, result what summarize()
\* returned for it, count processed_count, changed the rows whose processed
\* flag this run's commits turned from false to true.
IdleEnrich ==
    [pc |-> "idle", trigger |-> "none", sel |-> <<>>, idx |-> 1, sess |-> <<>>,
     calls |-> 0, result |-> "unconfigured", count |-> 0, changed |-> {}]

InFlight(e) == enrich[e].pc \in {"summarize", "retry", "begin", "finish", "commit"}
Item(e) == enrich[e].sel[enrich[e].idx]

Unprocessed(st) == {i \in 1..Len(st) : ~st[i].processed}

\* filter_by(processed=False).order_by(publish_date.desc()).limit(limit).all():
\* every listing the query may return (rows with equal dates in any order).
RECURSIVE Ordered(_, _, _)
Ordered(st, ids, n) ==
    IF n = 0 \/ ids = {} THEN {<<>>}
    ELSE LET latest == {k \in ids : \A j \in ids : st[k].pub >= st[j].pub}
         IN  UNION {{<<k>> \o s : s \in Ordered(st, ids \ {k}, n - 1)} : k \in latest}

Listings(st, limit) == Ordered(st, Unprocessed(st), limit)

\* The scheduler starts a cron run of a job only while no run it started
\* earlier is still executing (one instance per job id); run_now and
\* run_full_pipeline call the job method on the caller's thread, unguarded.
Triggers == {"cron", "direct"}
MayTrigger(e, trig) ==
    trig = "cron" => \A f \in Enrichers : ~(InFlight(f) /\ enrich[f].trigger = "cron")

\* process_unprocessed, the query; an empty listing returns 0 at once.
EnrichStart(e) ==
    /\ ~InFlight(e) /\ enrichLeft > 0
    /\ \E trig \in Triggers, s \in Listings(store, EnrichLimit) :
          /\ MayTrigger(e, trig)
          /\ enrich' = [enrich EXCEPT ![e] =
                [IdleEnrich EXCEPT !.trigger = trig, !.sel = s,
                                   !.pc = IF s = <<>> THEN "done" ELSE "summarize"]]
    /\ enrichLeft' = enrichLeft - 1
    /\ UNCHANGED <<store, client, times, collectVars, schedVars, digestVars, restVars>>

\* process_content returned for the current item: on to the next one, or
\* process_unprocessed returns the count.
NextItem(r, ok) ==
    [r EXCEPT !.count = IF ok THEN r.count + 1 ELSE r.count,
              !.idx = r.idx + 1, !.sess = <<>>,
              !.pc = IF r.idx + 1 > Len(r.sel) THEN "done" ELSE "summarize"]

\* An exception leaves process_content and process_unprocessed; the session
\* is closed without a commit.
Throw(r) == [r EXCEPT !.sess = <<>>, !.pc = "raised"]

\* the ids process_content has been called for and has left
Tried(e) ==
    {enrich[e].sel[k] : k \in 1..(enrich[e].idx - 1)}
    \cup (IF enrich[e].pc = "raised" THEN {Item(e)} ELSE {})

\* summarize(): no client -> None without a call; otherwise the call, the
\* parse, and None on any exception.  A call that raised is made again only
\* while fewer than SummarizeAttempts calls were made.
EnrichSummarize(e) ==
    /\ enrich[e].pc \in {"summarize", "retry"}
    /\ \E out \in (IF client THEN ProviderOutcomes ELSE {Raised}) :
          LET made == IF enrich[e].pc = "retry" THEN enrich[e].calls ELSE 0
              r == [enrich[e] EXCEPT !.calls = IF client THEN made + 1 ELSE 0,
                                     !.result = IF client THEN Parsed(out)
                                                ELSE "unconfigured"]
          IN  enrich' = [enrich EXCEPT ![e] =
                IF client /\ out = Raised /\ r.calls < SummarizeAttempts
                THEN [r EXCEPT !.pc = "retry"]
                ELSE IF Falsy(r.result) THEN NextItem(r, FALSE)
                ELSE [r EXCEPT !.pc = "begin"]]
    /\ UNCHANGED <<store, client, enrichLeft, times, collectVars, schedVars, digestVars, restVars>>

\* process_content lines 188-201: open the session, read the row, assign
\* summary (None when the object's "summary" is null) and categories;
\* result.get on a value that is no object raises.  The table is untouched:
\* the session writes only at session.commit().
EnrichBegin(e) ==
    /\ enrich[e].pc = "begin"
    /\ LET r == enrich[e]
           loaded == store[Item(e)]
           row == [loaded EXCEPT
                      !.summary = IF r.result = "null_summary" THEN NULL ELSE e,
                      !.categories = e]
       IN  enrich' = [enrich EXCEPT ![e] =
              IF r.result = "non_object" THEN Throw(r)
              ELSE [r EXCEPT !.sess = <<loaded, row>>, !.pc = "finish"]]
    /\ UNCHANGED <<store, client, enrichLeft, times, collectVars, schedVars, digestVars, restVars>>

\* A process_content that marks a row processed only when it got a summary.
MarkedIfSummarized(row) == [row EXCEPT !.processed = row.summary # NULL]

\* db_content.processed = True
Marked(row) == [row EXCEPT !.processed = TRUE]

\* process_content lines 204-215: merge the entities (update with a value
\* that is no object raises), assign investment_signals and processed.
EnrichFinish(e) ==
    /\ enrich[e].pc = "finish"
    /\ LET r == enrich[e]
           row == Marked([r.sess[2] EXCEPT !.entities = @ \cup {e}, !.signals = e])
       IN  enrich' = [enrich EXCEPT ![e] =
              IF r.result = "bad_entities" THEN Throw(r)
              ELSE [r EXCEPT !.sess = <<r.sess[1], row>>, !.pc = "commit"]]
    /\ UNCHANGED <<store, client, enrichLeft, times, collectVars, schedVars, digestVars, restVars>>

\* The value a column has after the UPDATE of a flush: the unit of work puts
\* a column in the SET list only when the attribute differs from the value
\* the session loaded.
Flushed(current, loaded, assigned) == IF assigned # loaded THEN assigned ELSE current

\* The UPDATE of session.commit() on the one row of the session.
Updated(st, id, loaded, row) ==
    [st EXCEPT ![id] =
        [@ EXCEPT !.summary = Flushed(@, loaded.summary, row.summary),
                  !.categories = Flushed(@, loaded.categories, row.categories),
                  !.entities = Flushed(@, loaded.entities, row.entities),
                  !.signals = Flushed(@, loaded.signals, row.signals),
                  !.processed = Flushed(@, loaded.processed, row.processed)]]

\* session.commit() succeeds; process_content returns True.
EnrichCommit(e) ==
    /\ enrich[e].pc = "commit"
    /\ store' = Updated(store, Item(e), enrich[e].sess[1], enrich[e].sess[2])
    /\ times' = [times EXCEPT ![Item(e)] = @ + 1]
    /\ enrich' = [enrich EXCEPT ![e] =
          NextItem([enrich[e] EXCEPT !.changed =
                        IF store[Item(e)].processed THEN @ ELSE @ \cup {Item(e)}],
                   TRUE)]
    /\ UNCHANGED <<client, enrichLeft, collectVars, schedVars, digestVars, restVars>>

\* session.commit() raises (the store refuses the write): nothing is written.
EnrichCommitFails(e) ==
    /\ enrich[e].pc = "commit"
    /\ enrich' = [enrich EXCEPT ![e] = Throw(enrich[e])]
    /\ UNCHANGED <<store, client, enrichLeft, times, collectVars, schedVars, digestVars, restVars>>

\* The runs of collect_rss_job between two enrich passes, taken as one step:
\* as many new entries as one pass selects are committed, each published
\* later than every row in the table (collect_from_feed puts no limit on
\* feed.entries, and the job fires four times between two nightly passes).
Newest(st) == IF st = <<>> THEN 0 ELSE CHOOSE p \in {st[i].pub : i \in 1..Len(st)} :
                                           \A i \in 1..Len(st) : p >= st[i].pub
Arrive ==
    /\ Len(store) + EnrichLimit <= BacklogRows
    /\ store' = store \o [k \in 1..EnrichLimit |->
                    NewRow(Len(store) + k, "article", Newest(store) + k, NoEntities)]
    /\ times' = [i \in 1..(Len(store) + EnrichLimit) |->
                    IF i <= Len(store) THEN times[i] ELSE 0]
    /\ UNCHANGED <<client, enrich, enrichLeft, collectVars, schedVars, digestVars, restVars>>

\* A deployment without ANTHROPIC_API_KEY: summarize() returns None for every
\* item, so process_content never opens its session.
BacklogNext ==
    \/ \E e \in Enrichers : EnrichStart(e) \/ EnrichSummarize(e)
    \/ Arrive

EnrichNext ==
    \E e \in Enrichers :
        \/ EnrichStart(e) \/ EnrichSummarize(e) \/ EnrichBegin(e)
        \/ EnrichFinish(e) \/ EnrichCommit(e) \/ EnrichCommitFails(e)

EnrichIdle ==
    /\ client \in BOOLEAN
    /\ enrich = [e \in Enrichers |-> IdleEnrich]

\* ------------------------------------------------------------- scheduler
\* DigestScheduler.  The keys of job_map, in the order of run_full_pipeline.
PipelineOrderSwapped == <<"rss", "youtube", "generate", "process", "send">>
PipelineOrder == <<"rss", "youtube", "process", "generate", "send">>
Jobs == {PipelineOrder[k] : k \in 1..Len(PipelineOrder)}
Callers == 1..NumCallers

\* What the component a job method calls does: it returns or it raises.
ComponentOutcomes == {"returns", "raises"}

\* A job method without its except clause.
CaughtNothing(outcome) == FALSE

\* `except Exception as e` of a *_job method: what the component raises is
\* caught.
Caught(outcome) == outcome = "raises"

\* A *_job method: try: component() / except Exception: logger.error(...).
\* The method returns normally either way, the run succeeded or failed; an
\* error that is not caught leaves the method ("escaped").
JobResult(outcome) ==
    IF outcome = "returns" THEN "succeeded"
    ELSE IF Caught(outcome) THEN "failed" ELSE "escaped"

\* op is the call in progress, job the job method it is in, stage the
\* position in run_full_pipeline; of the call that ended last: was is what it
\* was, ran the job methods it called with their results, error whether an
\* exception left it.
IdleCall ==
    [op |-> "none", job |-> "none", stage |-> 0, ran |-> <<>>, was |-> "none",
     error |-> FALSE]

Ran(job, outcome) == [job |-> job, result |-> JobResult(outcome)]

\* runs of job j in flight: the executor's and the callers'
CronRuns(j) == IF cron[j] = "running" THEN {"cron"} ELSE {}
CallRuns(j) == {c \in Callers : call[c].op # "none" /\ call[c].job = j}
RunsInFlight(j) == Cardinality(CronRuns(j)) + Cardinality(CallRuns(j))

\* An executor that holds back every job once a run has failed.
ExecutorAdmitsUnlessFailed(j) ==
    cron[j] = "idle" /\ \A k \in Jobs : last[k] # "failed"

\* An executor that runs each job once only.
ExecutorAdmitsOnce(j) == cron[j] = "idle" /\ last[j] = "none"

\* Whether the executor may start another instance of a job added with
\* add_job(...) as in setup_jobs: no max_instances is given, so one at a time.
ExecutorAdmits(j) == cron[j] = "idle"

\* A run or call starts: one fewer may start later, unless any number may.
Unbounded == 0 - 1
MayStart == schedLeft # 0
Started == schedLeft' = IF schedLeft = Unbounded THEN Unbounded ELSE schedLeft - 1

\* A cron trigger of setup_jobs fires and the executor starts the job method.
CronFire(j) ==
    /\ ExecutorAdmits(j) /\ MayStart
    /\ cron' = [cron EXCEPT ![j] = "running"]
    /\ Started
    /\ UNCHANGED <<store, collectVars, enrichVars, digestVars, restVars, call, last>>

\* The job method the executor runs returns.
CronFinish(j) ==
    /\ cron[j] = "running"
    /\ \E outcome \in ComponentOutcomes :
          last' = [last EXCEPT ![j] = JobResult(outcome)]
    /\ cron' = [cron EXCEPT ![j] = "idle"]
    /\ UNCHANGED <<store, collectVars, enrichVars, digestVars, restVars, call, schedLeft>>

\* run_now(job_name): a known name calls the job method on the caller's
\* thread, with no check of what is running; an unknown name is logged.
RunNow(c) ==
    /\ call[c].op = "none" /\ MayStart
    /\ \E name \in Jobs \cup {"unknown"} :
          call' = [call EXCEPT ![c] =
              IF name \in Jobs THEN [IdleCall EXCEPT !.op = "run_now", !.job = name]
              ELSE IdleCall]
    /\ Started
    /\ UNCHANGED <<store, collectVars, enrichVars, digestVars, restVars, cron, last>>

\* The job method run_now called returns (or lets an error through).
RunNowFinish(c) ==
    /\ call[c].op = "run_now"
    /\ \E outcome \in ComponentOutcomes :
          /\ last' = [last EXCEPT ![call[c].job] = JobResult(outcome)]
          /\ call' = [call EXCEPT ![c] =
                [IdleCall EXCEPT !.ran = <<Ran(call[c].job, outcome)>>,
                                 !.was = "run_now",
                                 !.error = JobResult(outcome) = "escaped"]]
    /\ UNCHANGED <<store, collectVars, enrichVars, digestVars, restVars, cron, schedLeft>>

\* run_full_pipeline() is called: its first job method starts.
PipelineStart(c) ==
    /\ call[c].op = "none" /\ MayStart
    /\ call' = [call EXCEPT ![c] =
          [IdleCall EXCEPT !.op = "pipeline", !.stage = 1, !.job = PipelineOrder[1]]]
    /\ Started
    /\ UNCHANGED <<store, collectVars, enrichVars, digestVars, restVars, cron, last>>

\* The job method of the current stage returns; the next one is called, or
\* run_full_pipeline returns.  An error leaving the job method leaves
\* run_full_pipeline too.
PipelineStep(c) ==
    /\ call[c].op = "pipeline"
    /\ \E outcome \in ComponentOutcomes :
          LET r == call[c]
              ran == Append(r.ran, Ran(r.job, outcome))
              escaped == JobResult(outcome) = "escaped"
          IN  /\ last' = [last EXCEPT ![r.job] = JobResult(outcome)]
              /\ call' = [call EXCEPT ![c] =
                    IF r.stage < Len(PipelineOrder) /\ ~escaped
                    THEN [r EXCEPT !.stage = r.stage + 1,
                                   !.job = PipelineOrder[r.stage + 1], !.ran = ran]
                    ELSE [IdleCall EXCEPT !.ran = ran, !.was = "pipeline",
                                          !.error = escaped]]
    /\ UNCHANGED <<store, collectVars, enrichVars, digestVars, restVars, cron, schedLeft>>

SchedNext ==
    \/ \E j \in Jobs : CronFire(j) \/ CronFinish(j)
    \/ \E c \in Callers : RunNow(c) \/ RunNowFinish(c) \/ PipelineStart(c) \/ PipelineStep(c)

SchedIdle ==
    /\ cron = [j \in Jobs |-> "idle"]
    /\ call = [c \in Callers |-> IdleCall]
    /\ last = [j \in Jobs |-> "none"]

\* ------------------------------------------------------------- digest generator
\* Instants are clock ticks of HoursPerTick hours; publish_date (pub) and
\* Digest.date are instants.
DigestWindowHours == 24    \* generate_digest: get_recent_content(hours=24)
HoursPerDay == 24
Window == DigestWindowHours \div HoursPerTick
Day(t) == (t * HoursPerTick) \div HoursPerDay

\* Category values by the set categorize_content tests them against.
InvestmentCategories == {"funding", "product_launch", "m&a"}
MarketCategories == {"trend", "regulatory", "talent"}
TechnicalCategories == {"technical"}

\* _parse_json(item.investment_signals).get("relevance_score", 0)
Relevance(id) == meta[id].score

\* A query without the processed filter.
RecentAny(st, t) == {i \in 1..Len(st) : st[i].pub >= t - Window}

\* get_recent_content: processed rows published at or after the cutoff
Recent(st, t) == {i \in 1..Len(st) : st[i].processed /\ st[i].pub >= t - Window}

\* categorize_content, the if / elif chain and the deep-dive test of one item
InInvestment(id) == meta[id].cats \cap InvestmentCategories # {} \/ Relevance(id) >= 8
InMarket(id) == ~InInvestment(id) /\ meta[id].cats \cap MarketCategories # {}
InTechnical(id) ==
    ~InInvestment(id) /\ ~InMarket(id) /\ meta[id].cats \cap TechnicalCategories # {}
InDeepDives(st, id) == st[id].ctype \in {"podcast", "video"} /\ Relevance(id) >= 6

\* every order the query may list a set of rows in: publish_date descending,
\* rows with equal dates in any order
Orderings(st, ids) == Ordered(st, ids, Cardinality(ids))

RECURSIVE Filter(_, _)
Filter(q, keep) ==
    IF q = <<>> THEN <<>>
    ELSE (IF Head(q) \in keep THEN <<Head(q)>> ELSE <<>>) \o Filter(Tail(q), keep)

\* A section without its limit.
Uncapped(q, n) == q

\* list[:n]
Capped(q, n) == SubSeq(q, 1, IF Len(q) < n THEN Len(q) ELSE n)

\* categorize_content(content_list): the four sections, each in list order
\* and cut to its limit.
NoSections == [investment |-> <<>>, market |-> <<>>, technical |-> <<>>, deep |-> <<>>]
Sections(st, q) ==
    LET ids == {q[k] : k \in 1..Len(q)}
    IN  [investment |-> Capped(Filter(q, {i \in ids : InInvestment(i)}), 10),
         market |-> Capped(Filter(q, {i \in ids : InMarket(i)}), 8),
         technical |-> Capped(Filter(q, {i \in ids : InTechnical(i)}), 5),
         deep |-> Capped(Filter(q, {i \in ids : InDeepDives(st, i)}), 3)]

\* content_ids of create_and_save_digest: the sections one after the other,
\* in the order the dict was built.
Flat(sec) == sec.investment \o sec.market \o sec.technical \o sec.deep
ContentIds(st, q) == Flat(Sections(st, q))

\* A sort that puts the later of two equal scores first.
TopSignalLastOfEqual(q) ==
    LET hi == Filter(q, {q[k] : k \in {j \in 1..Len(q) : Relevance(q[j]) >= 7}})
    IN  IF hi = <<>> THEN 0
        ELSE hi[CHOOSE k \in 1..Len(hi) :
                   /\ \A j \in 1..Len(hi) : Relevance(hi[j]) <= Relevance(hi[k])
                   /\ \A j \in (k + 1)..Len(hi) : Relevance(hi[j]) < Relevance(hi[k])]

\* get_top_signal(content_list): the items scoring 7 or more, in list order,
\* sorted by score descending (list.sort is stable, also with reverse=True),
\* the first of them; 0 for None.
TopSignal(q) ==
    LET hi == Filter(q, {q[k] : k \in {j \in 1..Len(q) : Relevance(q[j]) >= 7}})
    IN  IF hi = <<>> THEN 0
        ELSE hi[CHOOSE k \in 1..Len(hi) :
                   /\ \A j \in 1..Len(hi) : Relevance(hi[j]) <= Relevance(hi[k])
                   /\ \A j \in 1..(k - 1) : Relevance(hi[j]) < Relevance(hi[k])]

\* What create_and_save_digest copies out of the rows generate_digest read:
\* top_signal is json.dumps of the id, title and summary of the top signal
\* (None without one), html_content the rendering of the sections' rows.
NoTop == [id |-> 0, summary |-> NULL]
Snapshot(st, top, ids) ==
    [top |-> IF top = 0 THEN NoTop ELSE [id |-> top, summary |-> st[top].summary],
     body |-> [k \in 1..Len(ids) |-> st[ids[k]].summary]]

\* Digest(...) as create_and_save_digest constructs it
\* A digest row stored without its content_ids.
NewDigestWithoutIds(date, ids, snap) ==
    [date |-> date, ids |-> <<>>, top |-> snap.top, body |-> snap.body,
     sent |-> FALSE, sentAt |-> NULL]

NewDigest(date, ids, snap) ==
    [date |-> date, ids |-> ids, top |-> snap.top, body |-> snap.body,
     sent |-> FALSE, sentAt |-> NULL]

\* html_content rendered from the rows as they are when the digest is read.
BodyRendered(d) == [k \in 1..Len(digests[d].ids) |-> store[digests[d].ids[k]].summary]

\* digest.html_content as send_digest mails it: the stored column
Body(d) == digests[d].body

\* pc: idle -> save -> mark -> returned | raised, or idle -> direct for a
\* call of get_top_signal and categorize_content on a list the caller made.
\* listed is content_list, top and sections what get_top_signal and
\* categorize_content returned for it; date and ids are those of the Digest
\* being built, snap the values copied for its top_signal and html_content,
\* doc its row id once it is committed.
IdleGen ==
    [pc |-> "idle", date |-> 0, listed |-> <<>>, top |-> 0, sections |-> NoSections,
     ids |-> <<>>, snap |-> Snapshot(<<>>, 0, <<>>), doc |-> 0, err |-> "none"]

Digested(r, st, q) ==
    [r EXCEPT !.listed = q, !.top = TopSignal(q), !.sections = Sections(st, q),
              !.ids = ContentIds(st, q),
              !.snap = Snapshot(st, TopSignal(q), ContentIds(st, q))]

\* create_and_save_digest lines 156-159: generate_digest reads the clock and
\* the recent rows, render_html renders; an error in either leaves the call.
GenStart ==
    /\ gen.pc \in {"idle", "returned", "raised"} /\ genLeft > 0
    /\ \E q \in Orderings(store, Recent(store, now)), ok \in BOOLEAN :
          gen' = IF ok
                 THEN Digested([IdleGen EXCEPT !.pc = "save", !.date = now], store, q)
                 ELSE [IdleGen EXCEPT !.pc = "raised", !.err = "render"]
    /\ genLeft' = genLeft - 1
    /\ UNCHANGED <<store, collectVars, enrichVars, schedVars, restVars,
                   now, meta, digests, send, sendLeft, accepted>>

\* unique=True on Digest.date: the INSERT is refused when a row has this date
DateTaken(dg, date) == \E d \in 1..Len(dg) : dg[d].date = date

\* lines 161-179: session.add(digest); session.commit().  The commit is
\* refused (IntegrityError) when the date is taken, or fails in the store.
GenSave ==
    /\ gen.pc = "save"
    /\ \E fails \in BOOLEAN :
          IF fails \/ DateTaken(digests, gen.date)
          THEN /\ gen' = [gen EXCEPT !.pc = "raised",
                                     !.err = IF fails THEN "store" ELSE "integrity"]
               /\ UNCHANGED digests
          ELSE /\ digests' = Append(digests, NewDigest(gen.date, gen.ids, gen.snap))
               /\ gen' = [gen EXCEPT !.pc = "mark", !.doc = Len(digests) + 1]
    /\ UNCHANGED <<store, collectVars, enrichVars, schedVars, restVars,
                   now, meta, genLeft, send, sendLeft, accepted>>

\* A loop that sets the flag of every row of the table.
FlaggedAll(st, ids) == [i \in 1..Len(st) |-> [st[i] EXCEPT !.included = TRUE]]

\* the rows whose included_in_digest the loop of lines 182-185 sets
Flagged(st, ids) ==
    [i \in 1..Len(st) |->
        IF \E k \in 1..Len(ids) : ids[k] = i THEN [st[i] EXCEPT !.included = TRUE]
        ELSE st[i]]

\* lines 182-189: the flags are set and committed in a second commit, which
\* succeeds or raises.
GenMark ==
    /\ gen.pc = "mark"
    /\ \E fails \in BOOLEAN :
          IF fails
          THEN gen' = [gen EXCEPT !.pc = "raised", !.err = "store"] /\ UNCHANGED store
          ELSE gen' = [gen EXCEPT !.pc = "returned"] /\ store' = Flagged(store, gen.ids)
    /\ UNCHANGED <<collectVars, enrichVars, schedVars, restVars,
                   now, meta, digests, genLeft, send, sendLeft, accepted>>

\* get_top_signal and categorize_content called on a list that did not come
\* from get_recent_content (as the tests call them): the rows of the table in
\* id order.
GenDirect ==
    /\ gen.pc = "idle"
    /\ gen' = Digested([IdleGen EXCEPT !.pc = "direct"], store,
                       [k \in 1..Len(store) |-> k])
    /\ UNCHANGED <<store, collectVars, enrichVars, schedVars, restVars,
                   now, meta, digests, genLeft, send, sendLeft, accepted>>

SectionsNext == GenStart \/ GenDirect

\* create_and_save_digest while summarizer runs are under way.
FrozenNext == EnrichNext \/ GenStart \/ GenSave \/ GenMark

\* time passes
Tick ==
    /\ now < MaxNow
    /\ now' = now + 1
    /\ UNCHANGED <<store, collectVars, enrichVars, schedVars, restVars,
                   meta, digests, gen, genLeft, send, sendLeft, accepted>>

\* ------------------------------------------------------------- email sender
\* the threads that run send_latest_digest: the cron job's and those of the
\* callers of run_now("send") and run_full_pipeline
Senders == DOMAIN send

\* What sg_client.send does: it raises or answers with a status code;
\* "unconfigured" is send_digest without client or recipient (no call).
Statuses == {200, 201, 202, 400, 500}
NoCall == [kind |-> "unconfigured", status |-> 0]
SendRaises == [kind |-> "raises", status |-> 0]
Responses == {[kind |-> "response", status |-> c] : c \in Statuses}
SendOutcomes == {NoCall, SendRaises} \cup Responses

\* A send_digest that takes every response for a success.
SuccessAlways(status) == TRUE

\* `response.status_code in [200, 201, 202]`
Success(status) == status \in {200, 201, 202}

\* pc: idle -> call -> mark -> returned.  doc is the digest the run picked
\* (0: none), ok what send_latest_digest returned.
IdleSend == [pc |-> "idle", doc |-> 0, ok |-> FALSE, outcome |-> NoCall]

Unsent(dg) == {d \in 1..Len(dg) : ~dg[d].sent}

\* filter_by(sent=False).order_by(created_at.desc()).first(): the unsent
\* digest inserted last (created_at is the insert time)
LatestUnsent(dg) == CHOOSE d \in Unsent(dg) : \A e \in Unsent(dg) : e <= d

\* send_latest_digest lines 75-85: the query; no unsent digest -> False.
SendStart(s) ==
    /\ send[s].pc \in {"idle", "returned"} /\ sendLeft > 0
    /\ send' = [send EXCEPT ![s] =
          IF Unsent(digests) = {} THEN [IdleSend EXCEPT !.pc = "returned"]
          ELSE [IdleSend EXCEPT !.pc = "call", !.doc = LatestUnsent(digests)]]
    /\ sendLeft' = sendLeft - 1
    /\ UNCHANGED <<store, collectVars, enrichVars, schedVars, restVars,
                   now, meta, digests, gen, genLeft, accepted>>

\* send_digest lines 23-47 and 62-72: the provider call and the status test;
\* anything but a success status returns False.
SendCall(s) ==
    /\ send[s].pc = "call"
    /\ \E out \in SendOutcomes :
          IF out \in Responses /\ Success(out.status)
          THEN /\ send' = [send EXCEPT ![s] = [@ EXCEPT !.pc = "mark", !.outcome = out]]
               /\ accepted' = IF out.status \in {200, 201, 202}
                              THEN accepted \cup {send[s].doc} ELSE accepted
          ELSE /\ send' = [send EXCEPT ![s] = [@ EXCEPT !.pc = "returned", !.outcome = out]]
               /\ UNCHANGED accepted
    /\ UNCHANGED <<store, collectVars, enrichVars, schedVars, restVars,
                   now, meta, digests, gen, genLeft, sendLeft>>

\* send_digest lines 48-61: sent and sent_at are set and committed; a commit
\* that raises is caught by the except of send_digest, which returns False.
SendMark(s) ==
    /\ send[s].pc = "mark"
    /\ \E fails \in BOOLEAN :
          IF fails
          THEN /\ send' = [send EXCEPT ![s] = [@ EXCEPT !.pc = "returned"]]
               /\ UNCHANGED digests
          ELSE /\ send' = [send EXCEPT ![s] = [@ EXCEPT !.pc = "returned", !.ok = TRUE]]
               /\ digests' = [digests EXCEPT ![send[s].doc] =
                                 [@ EXCEPT !.sent = TRUE, !.sentAt = now]]
    /\ UNCHANGED <<store, collectVars, enrichVars, schedVars, restVars,
                   now, meta, gen, genLeft, sendLeft, accepted>>

DigestNext ==
    \/ GenStart \/ GenSave \/ GenMark \/ Tick
    \/ \E s \in Senders : SendStart(s) \/ SendCall(s) \/ SendMark(s)

DigestIdle ==
    /\ digests = <<>> /\ accepted = {}
    /\ gen = IdleGen
    /\ send = [s \in 1..NumSenders |-> IdleSend]

\* ------------------------------------------------------------- main.py
\* sys.argv[1], lower-cased; "" when there is no argument.
Commands == {"init", "serve", "run", "collect", "process", "digest"}
Argvs == Commands \cup {"", "bogus"}

\* What each entry of the commands dict calls, in call order: run_collection
\* is rss.collect_all then youtube.collect_all, and "run" is the tuple
\* (run_collection(), run_processing(), run_digest()), evaluated left to right.
CollectionStages == <<"rss", "youtube">>
Stages(cmd) ==
    CASE cmd = "init" -> <<"init">>
      [] cmd = "serve" -> <<"serve">>
      [] cmd = "run" -> CollectionStages \o <<"process", "digest">>
      [] cmd = "collect" -> CollectionStages
      [] cmd = "process" -> <<"process">>
      [] cmd = "digest" -> <<"digest">>

\* pc: idle -> running -> exited.  ran lists the stages called so far, todo
\* those still to call; code is the exit status of the process.
IdleCli == [pc |-> "idle", cmd |-> "", todo |-> <<>>, ran |-> <<>>, code |-> 0]

Exited(r, code) == [r EXCEPT !.pc = "exited", !.code = code]

\* main(): no argument or an unknown command prints the usage and exits 1.
MainStart ==
    /\ cli.pc # "running" /\ cliLeft > 0
    /\ \E argv \in Argvs :
          LET r == [IdleCli EXCEPT !.cmd = argv] IN
          IF argv \notin Commands
          THEN /\ cli' = Exited(r, 1)
               /\ codes' = Append(codes, [cmd |-> argv, code |-> 1])
          ELSE /\ cli' = [r EXCEPT !.pc = "running", !.todo = Stages(argv)]
               /\ codes' = codes
    /\ cliLeft' = cliLeft - 1
    /\ UNCHANGED <<store, collectVars, enrichVars, schedVars, digestVars, tries, dur, typed, fmt>>

\* commands[command](): the next stage is called.  Nothing between main()
\* and the stage catches: an exception a stage raises ends the process
\* with a traceback and status 1, and the stages after it are not called.
MainStep ==
    /\ cli.pc = "running"
    /\ \E outcome \in ComponentOutcomes :
          LET r == [cli EXCEPT !.ran = Append(@, Head(cli.todo)), !.todo = Tail(@)]
              end == IF outcome = "raises" THEN 1
                     ELSE IF r.todo = <<>> THEN 0 ELSE 0 - 1
          IN  /\ cli' = IF end < 0 THEN r ELSE Exited(r, end)
              /\ codes' = IF end < 0 THEN codes
                          ELSE Append(codes, [cmd |-> r.cmd, code |-> end])
    /\ UNCHANGED <<store, collectVars, enrichVars, schedVars, digestVars, cliLeft,
                   tries, dur, typed, fmt>>

MainNext == MainStart \/ MainStep

CliIdle == cli = IdleCli /\ codes = <<>>

\* ------------------------------------------------------------- retry policy
\* @retry(stop=stop_after_attempt(3), wait=wait_exponential(...)) on
\* RSSCollector.fetch_feed and WebScraper.fetch_page.
StopAfterAttempt == 3
Retriers == {"feed", "web"}

\* pc: idle -> attempting -> returned.  log holds the outcome of every attempt
\* made (FetchOutcomes: the GET answered, raise_for_status raised, the GET
\* raised); result is what the caller of the fetch ends with.
IdleTry == [pc |-> "idle", log |-> <<>>, result |-> "none"]

Failed(log) == log # <<>> /\ log[Len(log)] # "ok"

\* A policy without a stop condition.
MayAttemptForever(log) == log = <<>> \/ Failed(log)

\* The decorator calls the function, and calls it again while the call before
\* raised and fewer than StopAfterAttempt calls were made.
MayAttempt(log) == (log = <<>> \/ Failed(log)) /\ Len(log) < StopAfterAttempt

\* collect_from_feed / scrape_article call the decorated fetch.
RetryCall(f) ==
    /\ tries[f].pc = "idle"
    /\ tries' = [tries EXCEPT ![f] = [IdleTry EXCEPT !.pc = "attempting"]]
    /\ UNCHANGED <<store, collectVars, enrichVars, schedVars, digestVars, cliVars, dur, typed, fmt>>

\* One call of the undecorated function.
Attempt(f) ==
    /\ tries[f].pc = "attempting" /\ MayAttempt(tries[f].log)
    /\ \E out \in FetchOutcomes :
          tries' = [tries EXCEPT ![f] = [@ EXCEPT !.log = Append(@, out)]]
    /\ UNCHANGED <<store, collectVars, enrichVars, schedVars, digestVars, cliVars, dur, typed, fmt>>

\* The decorated call ends: it returns what the last attempt returned, or
\* raises RetryError, which the caller's `except Exception` turns into the
\* empty list (collect_from_feed) or None (scrape_article).
RetryReturn(f) ==
    /\ tries[f].pc = "attempting" /\ ~MayAttempt(tries[f].log)
    /\ tries' = [tries EXCEPT ![f] =
          [@ EXCEPT !.pc = "returned",
                    !.result = IF Failed(tries[f].log) THEN "empty" ELSE "fetched"]]
    /\ UNCHANGED <<store, collectVars, enrichVars, schedVars, digestVars, cliVars, dur, typed, fmt>>

RetryNext == \E f \in Retriers : RetryCall(f) \/ Attempt(f) \/ RetryReturn(f)

RetryIdle == tries = [f \in Retriers |-> IdleTry]

\* ------------------------------------------------------------- parse_duration
\* A duration string is the sequence of its characters.
DigitChars == <<"0", "1", "2", "3", "4", "5", "6", "7", "8", "9">>
IsDigit(c) == \E k \in 1..Len(DigitChars) : DigitChars[k] = c
DigitValue(c) == (CHOOSE k \in 1..Len(DigitChars) : DigitChars[k] = c) - 1

\* \d+ at the start of s, greedy: how many characters it takes
RECURSIVE LeadingDigits(_)
LeadingDigits(s) ==
    IF s = <<>> \/ ~IsDigit(Head(s)) THEN 0 ELSE 1 + LeadingDigits(Tail(s))

\* int(group)
RECURSIVE Number(_)
Number(d) ==
    IF d = <<>> THEN 0
    ELSE Number(SubSeq(d, 1, Len(d) - 1)) * 10 + DigitValue(d[Len(d)])

\* (?:(\d+)U)? at the start of s: the group's number and what follows it, or
\* nothing taken (int(match.group(k) or 0) is then 0).
Group(s, unit) ==
    LET n == LeadingDigits(s)
    IN  IF n > 0 /\ Len(s) > n /\ s[n + 1] = unit
        THEN [val |-> Number(SubSeq(s, 1, n)), rest |-> SubSeq(s, n + 2, Len(s))]
        ELSE [val |-> 0, rest |-> s]

\* pattern.match(duration_str): the pattern is tried at the start of the
\* string and need not reach its end.  The three numbers and the part of the
\* string the match did not take; matched is FALSE when there is no match.
Match(s) ==
    IF Len(s) < 2 \/ s[1] # "P" \/ s[2] # "T"
    THEN [matched |-> FALSE, h |-> 0, m |-> 0, sec |-> 0, rest |-> s]
    ELSE LET h == Group(SubSeq(s, 3, Len(s)), "H")
             m == Group(h.rest, "M")
             sec == Group(m.rest, "S")
         IN  [matched |-> TRUE, h |-> h.val, m |-> m.val, sec |-> sec.val,
              rest |-> sec.rest]

\* YouTubeCollector.parse_duration
ParseDuration(s) ==
    IF ~Match(s).matched THEN 0
    ELSE Match(s).h * 3600 + Match(s).m * 60 + Match(s).sec

\* pc: idle -> returned.
IdleDur == [pc |-> "idle", arg |-> <<>>, res |-> 0]

ParseDurationCall ==
    /\ dur.pc = "idle"
    /\ dur' = [dur EXCEPT !.pc = "returned", !.res = ParseDuration(dur.arg)]
    /\ UNCHANGED <<store, collectVars, enrichVars, schedVars, digestVars, cliVars, tries, typed, fmt>>

DurationIdle == dur = IdleDur

\* ------------------------------------------------------------- determine_content_type
\* A feed title and a MIME type are the sequences of their characters.
UpperChars == <<"A", "C", "F", "P", "S", "T", "V">>
LowerChars == <<"a", "c", "f", "p", "s", "t", "v">>

\* str.lower(), one character: a letter of UpperChars becomes its lower-case
\* form, every other character stays
LowerChar(c) ==
    IF \E k \in 1..Len(UpperChars) : UpperChars[k] = c
    THEN LowerChars[CHOOSE k \in 1..Len(UpperChars) : UpperChars[k] = c]
    ELSE c
Lower(s) == [k \in 1..Len(s) |-> LowerChar(s[k])]

\* k in s
Substring(k, s) ==
    \E i \in 0..(Len(s) - Len(k)) : SubSeq(s, i + 1, i + Len(k)) = k

\* s.startswith(prefix)
StartsWith(s, prefix) ==
    Len(s) >= Len(prefix) /\ SubSeq(s, 1, Len(prefix)) = prefix

PodcastNames ==
    {<<"p", "o", "d", "c", "a", "s", "t">>, <<"2", "0", "v", "c">>, <<"a", "1", "6", "z">>}
AudioPrefix == <<"a", "u", "d", "i", "o", "/">>

\* A link or enclosure is the value of its "type" key, the empty string when
\* the key is missing (link.get("type", "")).  An entry is its two lists, a
\* missing list being the empty one.
IsAudio(link) == StartsWith(link, AudioPrefix)
NameMatches(title) == \E k \in PodcastNames : Substring(k, Lower(title))

\* the loop of lines 30-32 reads entry["links"] only
Inspected(entry) == entry.links

\* RSSCollector.determine_content_type
DetermineContentType(entry, title) ==
    IF NameMatches(title) THEN "podcast"
    ELSE IF /\ entry.enclosures # <<>> \/ entry.links # <<>>
            /\ \E i \in 1..Len(Inspected(entry)) : IsAudio(Inspected(entry)[i])
         THEN "podcast"
         ELSE "article"

\* pc: idle -> returned.
NoEntry == [enclosures |-> <<>>, links |-> <<>>]
IdleType == [pc |-> "idle", entry |-> NoEntry, title |-> <<>>, res |-> ""]

DetermineContentTypeCall ==
    /\ typed.pc = "idle"
    /\ typed' = [typed EXCEPT !.pc = "returned",
                              !.res = DetermineContentType(typed.entry, typed.title)]
    /\ UNCHANGED <<store, collectVars, enrichVars, schedVars, digestVars, cliVars,
                   tries, dur, fmt>>

TypeIdle == typed = IdleType

\* ------------------------------------------------------------- format_duration
\* str(n) for an integer: its decimal digits, "-" before them when n < 0
RECURSIVE Digits(_)
Digits(n) ==
    IF n < 10 THEN <<DigitChars[n + 1]>>
    ELSE Digits(n \div 10) \o <<DigitChars[(n % 10) + 1]>>
Str(n) == IF n < 0 THEN <<"-">> \o Digits(0 - n) ELSE Digits(n)

\* The argument is None or an integer: none tells which, val is the integer.
None == [none |-> TRUE, val |-> 0]
Some(n) == [none |-> FALSE, val |-> n]

\* not seconds
NotSecondsNoneOnly(a) == a.none
NotSeconds(a) == a.none \/ a.val = 0

\* DigestGenerator.format_duration; // and % round towards minus infinity,
\* as \div and % do
FormatDuration(a) ==
    IF NotSeconds(a) THEN <<>>
    ELSE LET minutes == a.val \div 60
         IN  IF minutes < 60
             THEN Str(minutes) \o <<" ", "m", "i", "n">>
             ELSE LET hours == minutes \div 60
                      mins == minutes % 60
                  IN  Str(hours) \o <<"h", " ">> \o Str(mins) \o <<"m">>

\* pc: idle -> returned.
IdleFormat == [pc |-> "idle", arg |-> None, res |-> <<>>]

FormatDurationCall ==
    /\ fmt.pc = "idle"
    /\ fmt' = [fmt EXCEPT !.pc = "returned", !.res = FormatDuration(fmt.arg)]
    /\ UNCHANGED <<store, collectVars, enrichVars, schedVars, digestVars, cliVars,
                   tries, dur, typed>>

FormatIdle == fmt = IdleFormat

\* ------------------------------------------------------------- specifications
\* Rows as the collectors commit them: articles without entities, videos with
\* the channel collector's metadata, nothing enriched.
\* no digest is generated or sent; the clock stands at its last tick
NoDigestRuns == now = MaxNow /\ meta = <<>> /\ genLeft = 0 /\ sendLeft = 0

CollectedRow(i, ctype, pub) ==
    NewRow(i, ctype, pub, IF ctype = "video" THEN {FetchTag} ELSE NoEntities)

CollectedStores ==
    UNION {[1..n -> {CollectedRow(i, c, p) : i \in 1..n, c \in {"article", "video"},
                                              p \in 1..MaxPub}] : n \in 1..MaxItems}

CollectInit ==
    /\ store = <<>>
    /\ times = [i \in 1..(NumURLs * 2) |-> 0]
    /\ CollectIdle /\ fetchLeft = MaxFetchRuns
    /\ EnrichIdle /\ client /\ enrichLeft = 0
    /\ SchedIdle /\ schedLeft = 0
    /\ DigestIdle /\ NoDigestRuns
    /\ CliIdle /\ cliLeft = 0
    /\ RetryIdle /\ DurationIdle /\ TypeIdle /\ FormatIdle

SpecCollect == CollectInit /\ [][CollectNext]_vars

\* collect_all of the feed collector and of the channel collector, running
\* concurrently (collect_rss_job, collect_youtube_job).
CollectAllInit ==
    /\ store = <<>>
    /\ times = [i \in 1..(NumURLs * 2) |-> 0]
    /\ CollectIdle /\ fetchLeft = MaxSweepFetches
    /\ EnrichIdle /\ client /\ enrichLeft = 0
    /\ SchedIdle /\ schedLeft = 0
    /\ DigestIdle /\ NoDigestRuns
    /\ CliIdle /\ cliLeft = 0
    /\ RetryIdle /\ DurationIdle /\ TypeIdle /\ FormatIdle

SpecCollectAll == CollectAllInit /\ [][CollectAllNext]_vars

EnrichInit ==
    /\ store \in {s \in CollectedStores : \A i \in 1..Len(s) : s[i].url = i}
    /\ times = [i \in 1..Len(store) |-> 0]
    /\ CollectIdle /\ fetchLeft = 0
    /\ EnrichIdle /\ enrichLeft = MaxEnrichRuns
    /\ SchedIdle /\ schedLeft = 0
    /\ DigestIdle /\ NoDigestRuns
    /\ CliIdle /\ cliLeft = 0
    /\ RetryIdle /\ DurationIdle /\ TypeIdle /\ FormatIdle

SpecEnrich == EnrichInit /\ [][EnrichNext]_vars

\* Enrich passes without a provider while new entries arrive: one row is in
\* the table when the first pass starts.
BacklogInit ==
    /\ store = <<CollectedRow(1, "article", 1)>>
    /\ times = [i \in 1..Len(store) |-> 0]
    /\ CollectIdle /\ fetchLeft = 0
    /\ EnrichIdle /\ ~client /\ enrichLeft = MaxEnrichRuns
    /\ SchedIdle /\ schedLeft = 0
    /\ DigestIdle /\ NoDigestRuns
    /\ CliIdle /\ cliLeft = 0
    /\ RetryIdle /\ DurationIdle /\ TypeIdle /\ FormatIdle

SpecBacklog == BacklogInit /\ [][BacklogNext]_vars

\* Collectors and summarizer runs against one table, from the empty table.
Init ==
    /\ store = <<>>
    /\ times = [i \in 1..(NumURLs * 2) |-> 0]
    /\ CollectIdle /\ fetchLeft = PipelineFetchRuns
    /\ EnrichIdle /\ enrichLeft = PipelineEnrichRuns
    /\ SchedIdle /\ schedLeft = 0
    /\ DigestIdle /\ NoDigestRuns
    /\ CliIdle /\ cliLeft = 0
    /\ RetryIdle /\ DurationIdle /\ TypeIdle /\ FormatIdle

Next == CollectNext \/ EnrichNext

Spec == Init /\ [][Next]_vars

\* main.py invoked from the shell, one invocation after the other; the
\* stages are runs of components that return or raise.
MainInit ==
    /\ store = <<>>
    /\ times = [i \in 1..(NumURLs * 2) |-> 0]
    /\ CollectIdle /\ fetchLeft = 0
    /\ EnrichIdle /\ client /\ enrichLeft = 0
    /\ SchedIdle /\ schedLeft = 0
    /\ DigestIdle /\ NoDigestRuns
    /\ CliIdle /\ cliLeft = MaxInvocations
    /\ RetryIdle /\ DurationIdle /\ TypeIdle /\ FormatIdle

SpecMain == MainInit /\ [][MainNext]_vars

\* The feed collector and the page scraper each making one fetch.
RetryInit ==
    /\ store = <<>>
    /\ times = [i \in 1..(NumURLs * 2) |-> 0]
    /\ CollectIdle /\ fetchLeft = 0
    /\ EnrichIdle /\ client /\ enrichLeft = 0
    /\ SchedIdle /\ schedLeft = 0
    /\ DigestIdle /\ NoDigestRuns
    /\ CliIdle /\ cliLeft = 0
    /\ RetryIdle /\ DurationIdle /\ TypeIdle /\ FormatIdle

SpecRetry == RetryInit /\ [][RetryNext]_vars

\* parse_duration called once on a string: every string of up to MaxChars
\* characters of DurationChars, and the strings of the tests.
DurationChars == {"P", "T", "H", "M", "S", "1", "x"}
TestStrings ==
    {<<"P", "T", "1", "H", "3", "0", "M", "4", "5", "S">>,
     <<"P", "T", "4", "5", "M", "3", "0", "S">>,
     <<"P", "T", "1", "0", "M">>, <<"P", "T", "3", "0", "S">>, <<"P", "T", "2", "H">>,
     <<"i", "n", "v", "a", "l", "i", "d">>, <<>>}
DurationStrings(n) == SeqsUpTo(DurationChars, n) \cup TestStrings

DurationInit ==
    /\ store = <<>>
    /\ times = [i \in 1..(NumURLs * 2) |-> 0]
    /\ CollectIdle /\ fetchLeft = 0
    /\ EnrichIdle /\ client /\ enrichLeft = 0
    /\ SchedIdle /\ schedLeft = 0
    /\ DigestIdle /\ NoDigestRuns
    /\ CliIdle /\ cliLeft = 0
    /\ RetryIdle /\ TypeIdle /\ FormatIdle
    /\ dur \in {[IdleDur EXCEPT !.arg = a] : a \in DurationStrings(MaxChars)}

SpecDuration == DurationInit /\ [][ParseDurationCall]_vars

\* determine_content_type on every entry of up to MaxEnclosures enclosures and
\* MaxLinks links of the types of LinkTypes, under every title of up to
\* MaxTitle characters of TitleChars and the titles of the tests.
LinkTypes ==
    {<<>>, <<"a", "u", "d", "i", "o">>,
     <<"a", "u", "d", "i", "o", "/", "m", "p", "e", "g">>,
     <<"t", "e", "x", "t", "/", "h", "t", "m", "l">>}
TitleChars == {"2", "0", "V", "v", "c"}
TestTitles ==
    {<<"a", "1", "6", "z", " ", "P", "o", "d", "c", "a", "s", "t">>,
     <<"2", "0", "V", "C", " ", "S", "h", "o", "w">>,
     <<"T", "e", "c", "h", "C", "r", "u", "n", "c", "h">>,
     <<"S", "o", "m", "e", " ", "F", "e", "e", "d">>}
Titles(n) == SeqsUpTo(TitleChars, n) \cup TestTitles
TypedEntries(e, l) ==
    [enclosures : SeqsUpTo(LinkTypes, e), links : SeqsUpTo(LinkTypes, l)]

TypeInit ==
    /\ store = <<>>
    /\ times = [i \in 1..(NumURLs * 2) |-> 0]
    /\ CollectIdle /\ fetchLeft = 0
    /\ EnrichIdle /\ client /\ enrichLeft = 0
    /\ SchedIdle /\ schedLeft = 0
    /\ DigestIdle /\ NoDigestRuns
    /\ CliIdle /\ cliLeft = 0
    /\ RetryIdle /\ DurationIdle /\ FormatIdle
    /\ typed \in {[IdleType EXCEPT !.entry = e, !.title = t] :
                     e \in TypedEntries(MaxEnclosures, MaxLinks), t \in Titles(MaxTitle)}

SpecType == TypeInit /\ [][DetermineContentTypeCall]_vars

\* format_duration on None and on every number of seconds from -MaxBelowZero
\* to MaxSeconds.
FormatInit ==
    /\ store = <<>>
    /\ times = [i \in 1..(NumURLs * 2) |-> 0]
    /\ CollectIdle /\ fetchLeft = 0
    /\ EnrichIdle /\ client /\ enrichLeft = 0
    /\ SchedIdle /\ schedLeft = 0
    /\ DigestIdle /\ NoDigestRuns
    /\ CliIdle /\ cliLeft = 0
    /\ RetryIdle /\ DurationIdle /\ TypeIdle
    /\ fmt \in {[IdleFormat EXCEPT !.arg = a] :
                   a \in {None} \cup {Some(n) : n \in (0 - MaxBelowZero)..MaxSeconds}}

SpecFormat == FormatInit /\ [][FormatDurationCall]_vars

\* The scheduler alone: the jobs are runs of components that return or raise.
SchedInit ==
    /\ store = <<>>
    /\ times = [i \in 1..(NumURLs * 2) |-> 0]
    /\ CollectIdle /\ fetchLeft = 0
    /\ EnrichIdle /\ client /\ enrichLeft = 0
    /\ SchedIdle /\ schedLeft = Unbounded
    /\ DigestIdle /\ NoDigestRuns
    /\ CliIdle /\ cliLeft = 0
    /\ RetryIdle /\ DurationIdle /\ TypeIdle /\ FormatIdle

SpecSched == SchedInit /\ [][SchedNext]_vars

\* Digest generation and sending over a table of collected rows, some of them
\* enriched.
\* What the columns of an unenriched row decode to (_parse_json of NULL, and
\* the default of get("relevance_score", 0)), and what an enrichment may have
\* written.
NoMeta == [cats |-> {}, score |-> 0]
Metas == {NoMeta, [cats |-> {"funding"}, score |-> 8], [cats |-> {"technical"}, score |-> 6]}

EnrichedRow(row, yes) ==
    IF yes
    THEN [row EXCEPT !.summary = 1, !.categories = 1, !.signals = 1,
                     !.entities = @ \cup {1}, !.processed = TRUE]
    ELSE row

DigestStores ==
    {[i \in 1..n |-> EnrichedRow(CollectedRow(i, c[i], p[i]), e[i])] :
        n \in 0..MaxItems, c \in [1..MaxItems -> {"article", "video"}],
        p \in [1..MaxItems -> 1..MaxPub], e \in [1..MaxItems -> BOOLEAN]}

DigestInit ==
    /\ store \in DigestStores
    /\ meta \in {m \in [1..Len(store) -> Metas] :
                    \A i \in 1..Len(store) : ~store[i].processed => m[i] = NoMeta}
    /\ now = StartNow
    /\ times = [i \in 1..(NumURLs * 2) |-> 0]
    /\ CollectIdle /\ fetchLeft = 0
    /\ EnrichIdle /\ client /\ enrichLeft = 0
    /\ SchedIdle /\ schedLeft = 0
    /\ DigestIdle /\ genLeft = MaxGenRuns /\ sendLeft = MaxSendRuns
    /\ CliIdle /\ cliLeft = 0
    /\ RetryIdle /\ DurationIdle /\ TypeIdle /\ FormatIdle

SpecDigest == DigestInit /\ [][DigestNext]_vars

\* Send runs of the cron job and of a direct caller at the same time, over
\* the digest of an empty table.
SendRaceInit ==
    /\ store = <<>> /\ meta = <<>>
    /\ now = StartNow
    /\ times = [i \in 1..(NumURLs * 2) |-> 0]
    /\ CollectIdle /\ fetchLeft = 0
    /\ EnrichIdle /\ client /\ enrichLeft = 0
    /\ SchedIdle /\ schedLeft = 0
    /\ digests = <<>> /\ accepted = {} /\ gen = IdleGen
    /\ send = [s \in 1..NumRacers |-> IdleSend]
    /\ genLeft = 1 /\ sendLeft = MaxRaceRuns
    /\ CliIdle /\ cliLeft = 0
    /\ RetryIdle /\ DurationIdle /\ TypeIdle /\ FormatIdle

SpecSendRace == SendRaceInit /\ [][DigestNext]_vars

\* Summarizer runs and create_and_save_digest over a table of one collected
\* row; meta is what the row's enrichment decodes to.
FrozenInit ==
    /\ store \in {<<CollectedRow(1, c, StartNow)>> : c \in {"article", "video"}}
    /\ meta \in [1..Len(store) -> Metas \ {NoMeta}]
    /\ now = StartNow
    /\ times = [i \in 1..Len(store) |-> 0]
    /\ CollectIdle /\ fetchLeft = 0
    /\ EnrichIdle /\ client /\ enrichLeft = MaxEnrichRuns
    /\ SchedIdle /\ schedLeft = 0
    /\ DigestIdle /\ genLeft = MaxGenRuns /\ sendLeft = 0
    /\ CliIdle /\ cliLeft = 0
    /\ RetryIdle /\ DurationIdle /\ TypeIdle /\ FormatIdle

SpecFrozen == FrozenInit /\ [][FrozenNext]_vars

\* generate_digest and direct calls of get_top_signal / categorize_content
\* over tables of enriched rows.  Short tables hold rows of every kind:
\* published before, at the edges of, and after the window, unprocessed or
\* processed with any of SectionMetas.  Long tables hold more rows than a
\* section takes, all published now: a block of rows of each of LongMetas.
SectionMetas ==
    {[cats |-> c, score |-> r] :
        c \in {{}, {"funding"}, {"trend"}, {"funding", "trend"}, {"technical"}},
        r \in {5, 7, 9}}
LongMetas ==
    <<[cats |-> {"funding"}, score |-> 9], [cats |-> {"trend"}, score |-> 5],
      [cats |-> {"technical"}, score |-> 7]>>
SectionPubs == (MaxNow - Window - 1)..(MaxNow + 1)

SectionsInit ==
    /\ \/ /\ store \in {[i \in 1..n |-> EnrichedRow(CollectedRow(i, c[i], p[i]), e[i])] :
                  n \in 0..MaxShort, c \in [1..MaxShort -> {"article", "video"}],
                  p \in [1..MaxShort -> SectionPubs], e \in [1..MaxShort -> BOOLEAN]}
          /\ meta \in {m \in [1..Len(store) -> SectionMetas \cup {NoMeta}] :
                  \A i \in 1..Len(store) : store[i].processed <=> m[i] # NoMeta}
          /\ genLeft = 1
       \/ /\ store \in {[i \in 1..n |-> EnrichedRow(CollectedRow(i, "video", MaxNow), TRUE)] :
                  n \in (MaxShort + 1)..MaxListed}
          /\ \E a, b \in 0..Len(store) :
                meta = [i \in 1..Len(store) |->
                          LongMetas[IF i <= a THEN 1 ELSE IF i <= a + b THEN 2 ELSE 3]]
          /\ genLeft = 0
    /\ now = MaxNow
    /\ times = [i \in 1..(NumURLs * 2) |-> 0]
    /\ CollectIdle /\ fetchLeft = 0
    /\ EnrichIdle /\ client /\ enrichLeft = 0
    /\ SchedIdle /\ schedLeft = 0
    /\ DigestIdle /\ sendLeft = 0
    /\ CliIdle /\ cliLeft = 0
    /\ RetryIdle /\ DurationIdle /\ TypeIdle /\ FormatIdle

SpecSections == SectionsInit /\ [][SectionsNext]_vars

\* generate_digest over tables of MaxCut enriched videos published at the
\* last two ticks and scoring 7 or 9: more deep dives than the section holds.
CutScores == {7, 9}
CapsInit ==
    /\ store \in {[i \in 1..MaxCut |-> EnrichedRow(CollectedRow(i, "video", p[i]), TRUE)] :
                     p \in [1..MaxCut -> {MaxNow - 1, MaxNow}]}
    /\ meta \in [1..MaxCut -> {[cats |-> c, score |-> r] :
                                  c \in {{}, {"funding"}}, r \in CutScores}]
    /\ now = MaxNow
    /\ times = [i \in 1..(NumURLs * 2) |-> 0]
    /\ CollectIdle /\ fetchLeft = 0
    /\ EnrichIdle /\ client /\ enrichLeft = 0
    /\ SchedIdle /\ schedLeft = 0
    /\ DigestIdle /\ genLeft = 1 /\ sendLeft = 0
    /\ CliIdle /\ cliLeft = 0
    /\ RetryIdle /\ DurationIdle /\ TypeIdle /\ FormatIdle

SpecCaps == CapsInit /\ [][GenStart]_vars

\* The scheduler with jobs that end: a job method that was entered returns
\* once its component has returned or raised.
SchedFairness ==
    /\ \A j \in Jobs : WF_vars(CronFinish(j))
    /\ \A c \in Callers : WF_vars(RunNowFinish(c)) /\ WF_vars(PipelineStep(c))

SchedLiveInit ==
    /\ store = <<>>
    /\ times = [i \in 1..(NumURLs * 2) |-> 0]
    /\ CollectIdle /\ fetchLeft = 0
    /\ EnrichIdle /\ client /\ enrichLeft = 0
    /\ SchedIdle /\ schedLeft = MaxJobStarts
    /\ DigestIdle /\ NoDigestRuns
    /\ CliIdle /\ cliLeft = 0
    /\ RetryIdle /\ DurationIdle /\ TypeIdle /\ FormatIdle

SpecSchedLive == SchedLiveInit /\ [][SchedNext]_vars /\ SchedFairness

\* ------------------------------------------------------------- collection claims
RowCount(u) == Cardinality(RowsWithURL(store, u))

\* The unique constraint alone: never two rows with one source_url.
AtMostOneRowPerURL == \A u \in URLs : RowCount(u) <= 1

AllOk(b) == \A i \in 1..Len(b) : b[i].ok

\* C1: the table never holds two rows with one sourceURL, and once two
\* collectors that both sent an INSERT for a URL have finished, exactly one row
\* with that URL exists.
C1_OneRowAfterRace ==
    /\ AtMostOneRowPerURL
    /\ \A f, g \in Fetchers : \A u \in URLs :
          (/\ f # g /\ Finished(f) /\ Finished(g)
           /\ u \in fetch[f].tried \cap fetch[g].tried
           /\ AllOk(fetch[f].batch) /\ AllOk(fetch[g].batch))
          => RowCount(u) = 1

\* C2: a run whose insert the unique constraint refused ends without an error
\* and every new item it collected is in the table.
C2_DuplicateIsNoError ==
    \A f \in Fetchers :
        (Finished(f) /\ fetch[f].err = "integrity")
        => /\ fetch[f].pc = "returned"
           /\ \A u \in fetch[f].tried : Exists(store, u)

\* C3: a later run of a collector over the same source contents ends without
\* an error and stores no row.
C3_RerunStoresNothing ==
    \A f \in Fetchers :
        (/\ fetch[f].run >= 2 /\ Finished(f)
         /\ fetch[f].outcome = "ok" /\ AllOk(fetch[f].batch))
        => fetch[f].pc = "returned" /\ fetch[f].stored = {}


\* ------------------------------------------------------------- enrichment claims
Rows == 1..Len(store)
Range(q) == {q[k] : k \in 1..Len(q)}

\* A processed row carries the summary, categories and investment_signals of
\* one enrichment, and that enrichment's entities are merged in.
Whole(row) ==
    /\ row.summary # NULL
    /\ row.categories = row.summary /\ row.signals = row.summary
    /\ row.summary \in row.entities

\* C4: in every state of the table (what any reader sees), a row with
\* processed = true has all its enrichment columns written by one and the same
\* enrichment: never missing, stale or mixed old/new columns.
C4_AtomicEnrichment == \A i \in Rows : store[i].processed => Whole(store[i])

Unset(row) == row.summary = NULL /\ row.categories = NULL /\ row.signals = NULL
AllSet(row) == row.summary # NULL /\ row.categories # NULL /\ row.signals # NULL

\* C5: every row of the committed table has its enrichment columns (summary,
\* categories, entities, investment_signals) either all unset or all set.
C5_AllOrNothing ==
    \A i \in Rows :
        \/ Unset(store[i]) /\ store[i].entities = NoEntities
        \/ AllSet(store[i]) /\ store[i].entities # NoEntities

\* C6: when the provider call raised, or neither the strict decode nor the
\* bracket extraction gave a value, process_content returns with the table
\* as it was: nothing of the item is written and no session is left open.
C6_FailureWritesNothing ==
    [][\A e \in Enrichers :
          (/\ enrich[e].pc \in {"summarize", "retry"}
           /\ enrich'[e] # enrich[e]
           /\ enrich'[e].pc # "retry"
           /\ enrich'[e].result \in {"provider_error", "unparsed"})
          => /\ store' = store /\ times' = times
             /\ enrich'[e].idx = enrich[e].idx + 1
             /\ enrich'[e].sess = <<>>
             /\ enrich'[e].count = enrich[e].count]_vars

\* C6 witness: process_content has returned for an item after a failed call
\* or parse, and the item is unprocessed with no enrichment column written.
C6_Witness ==
    \E e \in Enrichers :
        /\ enrich[e].idx > 1 /\ enrich[e].pc \in {"summarize", "done"}
        /\ enrich[e].result \in {"provider_error", "unparsed"}
        /\ LET row == store[enrich[e].sel[enrich[e].idx - 1]]
           IN  ~row.processed /\ Unset(row)

\* C7: a run of process_unprocessed that has ended has called process_content
\* for every item it selected.
C7_BatchContinues ==
    \A e \in Enrichers :
        enrich[e].pc \in {"done", "raised"} => Tried(e) = Range(enrich[e].sel)

\* C8: no item is enriched (committed with processed = true) more than once.
C8_EnrichedAtMostOnce == \A i \in Rows : times[i] <= 1

\* process_content has made its summarize() call for the item Tried last or
\* being written.
Summarized(e) ==
    enrich[e].pc \in {"begin", "finish", "commit", "raised"} \/ enrich[e].idx > 1

\* C9: within one enrichment the provider is called exactly once.
C9_ExactlyOneCall == \A e \in Enrichers : Summarized(e) => enrich[e].calls = 1

\* C9 as amended: within one enrichment the provider is called at most once,
\* whatever the call does: exactly once when a client is configured, not at
\* all when none is.
C9_AtMostOneCall ==
    \A e \in Enrichers :
        /\ enrich[e].calls <= 1
        /\ Summarized(e) => enrich[e].calls = (IF client THEN 1 ELSE 0)

\* C9 witness: an enrichment whose call raised or whose response could not be
\* parsed has ended after one call.
C9_Witness ==
    \E e \in Enrichers :
        /\ Summarized(e) /\ enrich[e].calls = 1
        /\ enrich[e].result \in {"provider_error", "unparsed"}


\* ------------------------------------------------------------- scheduler claims
\* C10: no job has two runs in flight at the same time, whichever triggers
\* (cron, run_now, run_full_pipeline) started them.
C10_NoOverlap == \A j \in Jobs : RunsInFlight(j) <= 1

\* C11: no error of a component leaves a job method: every run that ended
\* ended succeeded or failed (logged), and no run_now or run_full_pipeline
\* call was left by an exception.
C11_ErrorsAreLogged ==
    /\ \A j \in Jobs : last[j] # "escaped"
    /\ \A c \in Callers : ~call[c].error

\* C11 witness: a component raised in a cron run and in a direct call, and
\* both job methods have returned.
C11_Witness ==
    \E j \in Jobs, c \in Callers :
        /\ last[j] = "failed" /\ cron[j] = "idle"
        /\ call[c].was = "run_now" /\ call[c].ran[1].result = "failed"

\* the job methods a call has called, in order
JobsRan(c) == [k \in 1..Len(call[c].ran) |-> call[c].ran[k].job]

\* C12: run_full_pipeline calls fetch-feeds, fetch-channels, enrich, assemble,
\* deliver in this order, each exactly once, whatever the earlier stages did.
C12_PipelineRunsAllStages ==
    \A c \in Callers :
        LET stages == <<"rss", "youtube", "process", "generate", "send">>
        IN  /\ call[c].op = "pipeline" =>
                 /\ JobsRan(c) = SubSeq(stages, 1, call[c].stage - 1)
                 /\ call[c].job = stages[call[c].stage]
            /\ call[c].was = "pipeline" /\ call[c].op = "none" => JobsRan(c) = stages

\* C12 witness: a pipeline that has returned after its first stage failed.
C12_Witness ==
    \E c \in Callers :
        /\ call[c].was = "pipeline" /\ call[c].op = "none"
        /\ call[c].ran[1].result = "failed" /\ Len(call[c].ran) = Len(PipelineOrder)

\* C13: a failed run of one job never keeps the cron trigger of another job
\* from starting a run: whenever some job's latest run failed, every other job
\* that is not running can be started.
C13_JobsIndependent ==
    \A j, k \in Jobs :
        (j # k /\ last[k] = "failed" /\ cron[j] = "idle") => ENABLED CronFire(j)

\* C13 witness: the enrich job has failed and the feed job, which had not run
\* before, is running.
C13_Witness ==
    /\ last["process"] = "failed" /\ cron["process"] = "idle"
    /\ cron["rss"] = "running" /\ last["rss"] = "none"

\* C14: a run that started ends, as succeeded or failed, after which the job
\* is idle; an idle job can be started again.
C14_JobCycle ==
    /\ \A j \in Jobs :
          (cron[j] = "running") ~> (cron[j] = "idle" /\ last[j] \in {"succeeded", "failed"})
    /\ \A c \in Callers :
          (call[c].op # "none") ~> (call[c].op = "none" /\ ~call[c].error)
    /\ [](\A j \in Jobs : cron[j] = "idle" /\ MayStart => ENABLED CronFire(j))

\* C14 witness: a job whose earlier run failed is running again.
C14_Witness == \E j \in Jobs : cron[j] = "running" /\ last[j] = "failed"

\* ------------------------------------------------------------- digest claims
Docs == 1..Len(digests)
Listed(d) == {digests[d].ids[k] : k \in 1..Len(digests[d].ids)}

\* C15: the digest row and the included_in_digest flags of its items are
\* stored together: no state has a stored digest with an unflagged item, or a
\* flagged item that no stored digest lists.
C15_DocumentAndFlagsTogether ==
    /\ \A d \in Docs : \A i \in Listed(d) : store[i].included
    /\ \A i \in Rows : store[i].included => \E d \in Docs : i \in Listed(d)

\* C16: no two stored digests have dates on the same calendar day.
C16_OneDigestPerDay ==
    \A d, e \in Docs : d # e => Day(digests[d].date) # Day(digests[e].date)

\* C17: a digest is marked sent only after the provider answered a send of it
\* with 200, 201 or 202; sent_at is set exactly on the digests marked sent.
C17_SentOnlyOnSuccess ==
    \A d \in Docs :
        /\ digests[d].sent => d \in accepted
        /\ digests[d].sent <=> digests[d].sentAt # NULL

\* C17 witness: one digest is marked sent, and a send of another one that the
\* provider refused or that raised has returned and left it unsent.
C17_Witness ==
    \E s \in Senders, d \in Docs :
        /\ digests[d].sent
        /\ send[s].pc = "returned" /\ send[s].doc \notin {0, d}
        /\ send[s].outcome \in {SendRaises} \cup {r \in Responses : r.status >= 400}
        /\ ~digests[send[s].doc].sent /\ digests[send[s].doc].sentAt = NULL

\* C18: a digest whose delivery failed stays unsent, and the next
\* send_latest_digest run of the send job picks it again.
C18_FailedIsRetried ==
    [][\A s \in Senders :
          (/\ send[s].pc = "returned" /\ ~send[s].ok /\ send[s].doc # 0
           /\ send'[s] # send[s])
          => /\ ~digests[send[s].doc].sent
             /\ send'[s].pc = "call" /\ send'[s].doc = send[s].doc]_vars

\* ------------------------------------------------------------- collect_all claims
\* C19: a source whose fetch failed makes collect_from_* return with nothing
\* stored, and collect_all goes on: it is not left by the error and, when it
\* has returned, it has fetched every configured source.
C19_FetchFailureIsContained ==
    \A f \in Sweepers :
        (Finished(f) /\ fetch[f].run > 0 /\ fetch[f].outcome # "ok")
        => /\ fetch[f].pc = "returned" /\ fetch[f].stored = {}
           /\ sweep[f].pc = "returned" => sweep[f].fetched = NumSources

\* a candidate the collector cannot store: no link / video id, or not ok
Bad(e) == e.link = NoLink \/ ~e.ok

\* C20: a run over a listing with a bad candidate (and no duplicate URL
\* refused) returns, and every good candidate of the listing is in the table.
C20_BadCandidateIsSkipped ==
    \A f \in Sweepers :
        (/\ Finished(f) /\ fetch[f].outcome = "ok" /\ fetch[f].err # "integrity"
         /\ \E i \in 1..Len(fetch[f].batch) : Bad(fetch[f].batch[i]))
        => /\ fetch[f].pc = "returned"
           /\ \A i \in 1..Len(fetch[f].batch) :
                 ~Bad(fetch[f].batch[i]) => Exists(store, fetch[f].batch[i].link)

\* ------------------------------------------------------------- main.py claim
\* C21: an invocation of "run" that has ended has called feed collection,
\* channel collection, processing and the digest stage, in that order,
\* whether or not a stage before raised.
C21_RunCallsEveryStage ==
    (cli.pc = "exited" /\ cli.cmd = "run")
    => cli.ran = <<"rss", "youtube", "process", "digest">>

\* ------------------------------------------------------------- batch claims
\* C22: the count process_unprocessed returns is the number of rows whose
\* processed flag the run turned from false to true.
C22_CountIsRowsChanged ==
    \A e \in Enrichers :
        enrich[e].pc = "done" => enrich[e].count = Cardinality(enrich[e].changed)

\* C23: a row a finished pass tried and left unprocessed is in every listing
\* the query of the next pass can return, whatever else is unprocessed.
C23_FailedIsSelectedAgain ==
    \A e \in Enrichers :
        enrich[e].pc = "done"
        => \A k \in Tried(e) :
              ~store[k].processed
              => \A s \in Listings(store, EnrichLimit) : \E i \in 1..Len(s) : s[i] = k

\* ------------------------------------------------------------- digest assembly claims
Assembled == gen.pc \in {"save", "direct"}
ListedIds == {gen.listed[k] : k \in 1..Len(gen.listed)}
In(q, i) == \E k \in 1..Len(q) : q[k] = i

\* C24: generate_digest selects exactly the processed rows published in
\* [now - window, now]: no unprocessed row, no row older than the window, no
\* row published after now.
C24_SelectsTheWindow ==
    gen.pc = "save"
    => ListedIds = {i \in Rows : /\ store[i].processed
                                 /\ store[i].pub >= gen.date - Window
                                 /\ store[i].pub <= gen.date}

C26_SectionsIndependent ==
    (Assembled /\ Len(gen.listed) <= MaxShort)
    => \A i \in ListedIds :
          /\ In(gen.sections.investment, i)
             <=> (meta[i].cats \cap {"funding", "product_launch", "m&a"} # {}
                  \/ meta[i].score >= 8)
          /\ In(gen.sections.market, i)
             <=> meta[i].cats \cap {"trend", "regulatory", "talent"} # {}
          /\ In(gen.sections.technical, i) <=> "technical" \in meta[i].cats
          /\ In(gen.sections.deep, i)
             <=> (store[i].ctype \in {"podcast", "video"} /\ meta[i].score >= 6)

\* C27: after categorize_content the sections hold at most 10, 8, 5 and 3
\* rows.
C27_SectionsCapped ==
    Assembled
    => /\ Len(gen.sections.investment) <= 10
       /\ Len(gen.sections.market) <= 8
       /\ Len(gen.sections.technical) <= 5
       /\ Len(gen.sections.deep) <= 3

\* C27 witness: more than ten listed rows pass the investment and the
\* deep-dive test, and the two sections hold 10 and 3 of them.
C27_Witness ==
    /\ Assembled
    /\ Cardinality({i \in ListedIds : "funding" \in meta[i].cats}) > 10
    /\ Len(gen.sections.investment) = 10 /\ Len(gen.sections.deep) = 3

\* ------------------------------------------------------------- retry claim
\* C28: a feed or page fetch makes at most 3 attempts and none after one
\* that succeeded; it ends in failure only after the third failed attempt,
\* and its caller then has no items.
C28_AtMostThreeAttempts ==
    \A f \in Retriers :
        LET log == tries[f].log IN
        /\ Len(log) <= 3
        /\ \A k \in 1..(Len(log) - 1) : log[k] # "ok"
        /\ tries[f].pc = "returned"
           => /\ log # <<>>
              /\ log[Len(log)] = "ok" <=> tries[f].result = "fetched"
              /\ log[Len(log)] # "ok" => Len(log) = 3 /\ tries[f].result = "empty"

\* C28 witness: the feed fetch gave up after three failed attempts and the
\* page fetch succeeded at its second attempt.
C28_Witness ==
    /\ tries["feed"].pc = "returned" /\ tries["feed"].result = "empty"
    /\ Len(tries["feed"].log) = 3
    /\ tries["web"].pc = "returned" /\ tries["web"].result = "fetched"
    /\ Len(tries["web"].log) = 2

\* ------------------------------------------------------------- parse_duration claim
\* the whole string is PT, then at most one nH, one nM and one nS in this order
OfTheForm(s) == Match(s).matched /\ Match(s).rest = <<>>

\* C30: parse_duration returns hours * 3600 + minutes * 60 + seconds for a
\* string of the form PT[nH][nM][nS], a missing part counting 0, and 0 for
\* every other string.
C30_ParseDuration ==
    dur.pc = "returned"
    => dur.res = IF OfTheForm(dur.arg)
                 THEN Match(dur.arg).h * 3600 + Match(dur.arg).m * 60 + Match(dur.arg).sec
                 ELSE 0

\* ------------------------------------------------------------- frozen digest claim
\* C29: no step changes the top-signal snapshot or the body of a digest that
\* is stored, and none removes a stored digest; in particular none of a
\* summarizer run that enriches a listed row again.
C29_DigestFrozen ==
    [][/\ Len(digests') >= Len(digests)
       /\ \A d \in Docs : digests'[d].top = digests[d].top /\ Body(d)' = Body(d)]_vars

\* C29 witness: a stored digest lists a row whose summary was written again
\* after the digest was built; snapshot and body hold the summary of then.
C29_Witness ==
    \E d \in Docs :
        /\ digests[d].top.id # 0
        /\ store[digests[d].top.id].summary # digests[d].top.summary
        /\ Body(d) # BodyRendered(d)

\* ------------------------------------------------------------- content type claim
\* C31: determine_content_type returns podcast exactly when the feed title
\* contains a name of the podcast-name list or the entry carries an enclosure
\* or a link of an audio type; an entry with neither is an article.
C31_PodcastIffNameOrAudio ==
    typed.pc = "returned"
    => (typed.res = "podcast"
        <=> \/ NameMatches(typed.title)
            \/ \E i \in 1..Len(typed.entry.enclosures) : IsAudio(typed.entry.enclosures[i])
            \/ \E i \in 1..Len(typed.entry.links) : IsAudio(typed.entry.links[i]))

\* ------------------------------------------------------------- format_duration claim
\* C32: format_duration returns the empty string for None and 0, "<m> min"
\* with m = seconds div 60 when m is below 60, and "<h>h <m>m" with
\* h = minutes div 60 and m = minutes mod 60 otherwise; 300 gives "5 min",
\* 1800 "30 min", 3600 "1h 0m", 5400 "1h 30m", 7200 "2h 0m".
C32_FormatDuration ==
    fmt.pc = "returned"
    => LET sec == fmt.arg.val
           m == sec \div 60
       IN  /\ (fmt.arg.none \/ sec = 0) => fmt.res = <<>>
           /\ (~fmt.arg.none /\ sec # 0 /\ m < 60)
              => fmt.res = Str(m) \o <<" ", "m", "i", "n">>
           /\ (~fmt.arg.none /\ sec # 0 /\ m >= 60)
              => fmt.res = Str(m \div 60) \o <<"h", " ">> \o Str(m % 60) \o <<"m">>
           /\ fmt.arg = Some(300) => fmt.res = <<"5", " ", "m", "i", "n">>
           /\ fmt.arg = Some(1800) => fmt.res = <<"3", "0", " ", "m", "i", "n">>
           /\ fmt.arg = Some(3600) => fmt.res = <<"1", "h", " ", "0", "m">>
           /\ fmt.arg = Some(5400) => fmt.res = <<"1", "h", " ", "3", "0", "m">>
           /\ fmt.arg = Some(7200) => fmt.res = <<"2", "h", " ", "0", "m">>

\* C32 witness: the call returned "1h 30m" for 5400 seconds.
C32_Witness ==
    /\ fmt.pc = "returned"
    /\ fmt.arg = Some(5400)
    /\ fmt.res = <<"1", "h", " ", "3", "0", "m">>

\* ------------------------------------------------------------- sent flag claim
\* C33: once a digest is marked sent, no send run calls the provider for it,
\* and no step writes its sent flag or its sent_at again: sent never goes
\* back to false and sent_at keeps its value.
C33_SentOnce ==
    [][/\ \A s \in Senders :
             (/\ send[s].pc = "call" /\ send'[s].pc # "call"
              /\ send'[s].outcome # NoCall)
             => ~digests[send[s].doc].sent
       /\ \A s \in Senders :
             (send[s].pc = "mark" /\ send'[s].ok) => ~digests[send[s].doc].sent
       /\ \A d \in Docs :
             digests[d].sent
             => digests'[d].sent /\ digests'[d].sentAt = digests[d].sentAt]_vars

\* ------------------------------------------------------------- section limit claim
\* i is listed before j by relevance, then by publish time
Before(i, j) ==
    \/ meta[i].score > meta[j].score
    \/ meta[i].score = meta[j].score /\ store[i].pub >= store[j].pub

\* the section q keeps the best of the rows that pass its test, best first
KeepsBest(q, passing) ==
    Cardinality(passing) > Len(q)
    => /\ \A i \in passing : In(q, i) => \A j \in passing : ~In(q, j) => Before(i, j)
       /\ \A k, l \in 1..Len(q) : k < l => Before(q[k], q[l])

\* C34: when more listed rows pass a section's test than the section holds,
\* the section keeps those with the highest relevance score, of equal scores
\* the ones published last, and lists them in that order.
C34_KeepsHighestRelevance ==
    gen.pc = "save"
    => /\ KeepsBest(gen.sections.investment, {i \in ListedIds : InInvestment(i)})
       /\ KeepsBest(gen.sections.market, {i \in ListedIds : InMarket(i)})
       /\ KeepsBest(gen.sections.technical, {i \in ListedIds : InTechnical(i)})
       /\ KeepsBest(gen.sections.deep, {i \in ListedIds : InDeepDives(store, i)})

\* ------------------------------------------------------------- content row claims
\* C35: a step of create_and_save_digest changes no field of a content row
\* but included_in_digest, and that only to true on the rows the digest
\* lists; no step of any stage removes a row or changes its source URL.
C35_OnlyTheIncludedFlag ==
    [][/\ Len(store') >= Len(store)
       /\ \A i \in Rows : store'[i].url = store[i].url
       /\ gen' # gen
          => \A i \in Rows :
                /\ [store'[i] EXCEPT !.included = store[i].included] = store[i]
                /\ store'[i].included # store[i].included
                   => In(gen.ids, i) /\ store'[i].included]_vars

\* C35 witness: create_and_save_digest returned and flagged the row it
\* listed, whose summary a summarizer run had written.
C35_Witness ==
    /\ gen.pc = "returned"
    /\ \E i \in Rows : In(gen.ids, i) /\ store[i].included /\ store[i].summary # NULL

\* C36: no step takes the processed flag of a row from true to false, so the
\* set of processed rows only grows.
C36_ProcessedNeverReset ==
    [][\A i \in Rows : store[i].processed => store'[i].processed]_vars

\* C36 witness: a row two summarizer runs have written, the second after the
\* first had marked it, is processed.
C36_Witness ==
    \E i \in Rows : store[i].processed /\ times[i] >= 2

\* C37: a row has included_in_digest set only if a stored digest lists its
\* id: the flag is never stored before, or without, the digest row.
C37_FlagOnlyWithDocument ==
    \A i \in Rows : store[i].included => \E d \in Docs : In(digests[d].ids, i)

\* C37 witness: a run stored its digest and the flags of the rows it lists,
\* and a later run that listed a row failed to store its digest.
C37_Witness ==
    /\ gen.pc = "raised" /\ gen.ids # <<>>
    /\ \E d \in Docs, i \in Rows : In(digests[d].ids, i) /\ store[i].included

\* C38: every id a stored digest lists is the id of a row of the table, and
\* that row is processed; summarizer runs go on while digests are built.
C38_ListsOnlyProcessedRows ==
    \A d \in Docs : \A k \in 1..Len(digests[d].ids) :
        digests[d].ids[k] \in Rows /\ store[digests[d].ids[k]].processed

\* C38 witness: a stored digest lists a row while a summarizer run is about
\* to commit that row once more.
C38_Witness ==
    \E d \in Docs, e \in Enrichers :
        /\ digests[d].ids # <<>>
        /\ enrich[e].pc = "commit" /\ In(digests[d].ids, Item(e))

\* ------------------------------------------------------------- feed commit claim
\* C39: collect_from_feed writes to the table in one commit: the step that
\* ends the call appends a row for every entry it collected, in order, and
\* returns, or leaves the table as it was; no other step of the call writes.
C39_AllOrNothing ==
    [][fetch'["feed"] # fetch["feed"]
       => LET r == fetch["feed"]
          IN  \/ store' = store
              \/ /\ r.pc = "commit" /\ fetch'["feed"].pc = "returned"
                 /\ Len(store') = Len(store) + Len(r.pending)
                 /\ \A k \in 1..Len(store) : store'[k] = store[k]
                 /\ \A k \in 1..Len(r.pending) :
                       store'[Len(store) + k].url = r.pending[k].link]_vars

\* C39 witness: the commit of a call that collected two entries was refused
\* for one of them, and the other one is not in the table either.
C39_Witness ==
    /\ fetch["feed"].pc = "raised" /\ fetch["feed"].err = "integrity"
    /\ Len(fetch["feed"].pending) = 2
    /\ \E k \in 1..2 : ~Exists(store, fetch["feed"].pending[k].link)

====
